---- MODULE Spec2Model ----
(***************************************************************************)
(* A model of the SES-to-webhook bridge of lambda/python/lambda_function.py *)
(* DomainConfigManager (configuration cache, routing, sender filters),     *)
(* send_webhook (retry loop with capped exponential backoff), and the      *)
(* lambda_handler / process_ses_email pipeline.                            *)
(*                                                                         *)
(* Python values are modelled as follows.  A dict is a function whose      *)
(* DOMAIN is its set of keys, so "k in d" is k \in DOMAIN d.  A dict whose *)
(* iteration order matters (the "domains" object of the routing document)  *)
(* is a sequence of [name, rule] items in insertion order.  A str that is  *)
(* matched or split is a sequence of one-character strings; opaque strs    *)
(* (URLs, secrets, ids) are TLA+ strings.  None is the record NoneV.       *)
(***************************************************************************)
EXTENDS Integers, Sequences, FiniteSets, TLC

\* ------------------------------------------------------------------ bounds

\* Largest max_retries a directly called delivery is given.
MaxRetriesBound == 8
\* time.time() % 1 is modelled in steps of 1/JitterDen s.
JitterDen == 2
\* The clock stops advancing at this many seconds.
MaxTime == 300
\* The clock advances in steps of this many seconds.
TickStep == 150
\* Records in one event batch.
MaxBatch == 2

\* The longest list of parts of a multipart message.
MaxParts == 2

\* --------------------------------------------------------- Python values

NoneV == [tag |-> "None"]

\* d.get(k, default)
Get(d, k, default) == IF k \in DOMAIN d THEN d[k] ELSE default

\* The empty dict {}.
EmptyDict == <<>>

\* d with d[k] = v assigned.
Put(d, k, v) == (k :> v) @@ d

\* Truthiness of a list, dict or matched str (a sequence or function).
TruthySeq(v) == v # <<>>

\* Truthiness of an opaque str.
TruthyStr(v) == v # ""

\* str.lower(), character by character (ASCII letters).
UpperLetters ==
    <<"A", "B", "C", "D", "E", "F", "G", "H", "I", "J", "K", "L", "M",
      "N", "O", "P", "Q", "R", "S", "T", "U", "V", "W", "X", "Y", "Z">>

LowerLetters ==
    <<"a", "b", "c", "d", "e", "f", "g", "h", "i", "j", "k", "l", "m",
      "n", "o", "p", "q", "r", "s", "t", "u", "v", "w", "x", "y", "z">>

LowerTable ==
    [c \in {UpperLetters[i] : i \in 1..Len(UpperLetters)} |->
        LowerLetters[CHOOSE i \in 1..Len(UpperLetters) : UpperLetters[i] = c]]

LowerChar(c) == IF c \in DOMAIN LowerTable THEN LowerTable[c] ELSE c

RECURSIVE Lower(_)
Lower(s) == IF s = <<>> THEN <<>> ELSE <<LowerChar(Head(s))>> \o Lower(Tail(s))

\* fnmatch.translate's scan for the "]" that closes a character class: the
\* first index from j on that holds "]", or Len(pat) + 1.
RECURSIVE ScanClose(_, _)
ScanClose(pat, j) ==
    IF j > Len(pat) THEN j
    ELSE IF pat[j] = "]" THEN j
    ELSE ScanClose(pat, j + 1)

\* Where the class opened by pat[1] = "[" closes: a "!" right after the
\* bracket and a "]" right after that belong to the class.
ClassClose(pat) ==
    LET n == Len(pat)
        j1 == IF 2 <= n /\ pat[2] = "!" THEN 3 ELSE 2
        j2 == IF j1 <= n /\ pat[j1] = "]" THEN j1 + 1 ELSE j1
    IN  ScanClose(pat, j2)

\* fnmatch.fnmatch(name, pat) on a POSIX host (case is not folded): "*"
\* matches any run of characters, "?" exactly one, "[seq]" one character of
\* seq, "[!seq]" one character not in seq, a "[" that no "]" closes and any
\* other character itself; the whole name must match.  (Ranges "a-z" in a
\* class are not modelled: no pattern of the model has "-" in a class.)
RECURSIVE FnMatch(_, _)
FnMatch(name, pat) ==
    IF pat = <<>> THEN name = <<>>
    ELSE IF Head(pat) = "*"
         THEN \/ FnMatch(name, Tail(pat))
              \/ (name # <<>> /\ FnMatch(Tail(name), pat))
    ELSE IF Head(pat) = "[" /\ ClassClose(pat) <= Len(pat)
         THEN LET j == ClassClose(pat)
                  negated == pat[2] = "!"
                  stuff == SubSeq(pat, IF negated THEN 3 ELSE 2, j - 1)
                  chars == {stuff[k] : k \in 1..Len(stuff)}
              IN  /\ name # <<>>
                  /\ (Head(name) \in chars) # negated
                  /\ FnMatch(Tail(name), SubSeq(pat, j + 1, Len(pat)))
    ELSE IF name = <<>> THEN FALSE
    ELSE IF Head(pat) = "?" THEN FnMatch(Tail(name), Tail(pat))
    ELSE Head(name) = Head(pat) /\ FnMatch(Tail(name), Tail(pat))

\* DomainConfigManager._matches_pattern
MatchesPattern(email, pattern) == FnMatch(email, pattern)

\* str.split(sep) for a one-character separator.
RECURSIVE SplitAcc(_, _, _)
SplitAcc(s, sep, cur) ==
    IF s = <<>> THEN <<cur>>
    ELSE IF Head(s) = sep THEN <<cur>> \o SplitAcc(Tail(s), sep, <<>>)
    ELSE SplitAcc(Tail(s), sep, Append(cur, Head(s)))

Split(s, sep) == SplitAcc(s, sep, <<>>)

\* ------------------------------------------------ the data of the model

Star == <<"*">>

\* local@domain
Addr(l, d) == <<l, "@", d>>

\* Routing rules (DomainRule dicts of the remote JSON document).
RuleX ==
    [webhook_url |-> "https://x/hook",
     webhook_secret |-> "secret-x",
     patterns |-> <<Addr("*", "x"), Addr("a", "x")>>,
     filters |-> [max_size_mb |-> 5,
                  allowed_senders |-> <<Star>>,
                  blocked_senders |-> <<>>,
                  blocked_domains |-> <<>>],
     payload_format |-> "standard",
     retry_config |-> [max_retries |-> 2, timeout_seconds |-> 10]]

\* Overlaps RuleX on a@x; inherits every retry setting.
RuleA ==
    [webhook_url |-> "https://a/hook",
     patterns |-> <<Addr("A", "*")>>,
     filters |-> [allowed_senders |-> <<Addr("*", "y")>>,
                  blocked_senders |-> <<Addr("b", "*")>>,
                  blocked_domains |-> <<<<"X">>>>],
     custom_headers |-> [Authorization |-> "Bearer t"]]

\* Sets one field of retry_config only.
RulePartial ==
    [webhook_url |-> "https://p/hook",
     webhook_secret |-> "",
     patterns |-> <<Addr("?", "y")>>,
     filters |-> [allowed_senders |-> <<Star>>],
     retry_config |-> [timeout_seconds |-> 5]]

\* A rule without webhook_url.
RuleNoUrl ==
    [patterns |-> <<Addr("b", "x")>>,
     filters |-> [allowed_senders |-> <<Star>>]]

Item(n, r) == [name |-> n, rule |-> r]

DocTwo ==
    [version |-> "1.0",
     domains |-> <<Item(<<"x">>, RuleX), Item(<<"a">>, RuleA)>>,
     global_settings |-> [default_max_retries |-> 1,
                          default_timeout_seconds |-> 20,
                          default_max_size_mb |-> 7]]

DocReordered ==
    [version |-> "1.1",
     domains |-> <<Item(<<"n">>, RuleNoUrl), Item(<<"a">>, RuleA),
                   Item(<<"p">>, RulePartial), Item(<<"x">>, RuleX)>>]

DocEmptyDomains == [version |-> "1.0", domains |-> <<>>, global_settings |-> EmptyDict]

DocNoDomains == [version |-> "1.0"]

\* The routing document of the manager's unit tests.
RuleExampleCom ==
    [webhook_url |-> "https://api.example.com/webhook",
     webhook_secret |-> "secret123",
     patterns |-> <<<<"*", "@", "e", "x", "a", "m", "p", "l", "e", ".", "c", "o", "m">>,
                    <<"w", "e", "b", "h", "o", "o", "k", "@", "e", "x", "a", "m", "p", "l", "e", ".", "c", "o", "m">>>>,
     filters |-> [max_size_mb |-> 10,
                  allowed_senders |-> <<Star>>,
                  blocked_senders |-> <<>>,
                  blocked_domains |-> <<>>],
     payload_format |-> "standard",
     retry_config |-> [max_retries |-> 3, timeout_seconds |-> 30]]

ContactAtCompany == <<"c", "o", "n", "t", "a", "c", "t", "@", "c", "o", "m", "p", "a", "n", "y", ".", "o", "r", "g">>

RuleCompanyOrg ==
    [webhook_url |-> "https://company.org/api/webhook",
     webhook_secret |-> "company-secret",
     patterns |-> <<ContactAtCompany,
                    <<"s", "u", "p", "p", "o", "r", "t", "@", "c", "o", "m", "p", "a", "n", "y", ".", "o", "r", "g">>>>,
     filters |-> [max_size_mb |-> 5,
                  allowed_senders |-> <<<<"@", "t", "r", "u", "s", "t", "e", "d", ".", "c", "o", "m">>>>,
                  blocked_senders |-> <<<<"n", "o", "r", "e", "p", "l", "y", "@", "*">>>>,
                  blocked_domains |-> <<<<"s", "p", "a", "m", ".", "c", "o", "m">>>>],
     payload_format |-> "custom",
     custom_headers |-> [Authorization |-> "Bearer token123"]]

TestConfig ==
    [version |-> "1.0",
     last_updated |-> "2024-01-15T10:00:00Z",
     domains |-> <<Item(<<"e", "x", "a", "m", "p", "l", "e", ".", "c", "o", "m">>, RuleExampleCom),
                   Item(<<"c", "o", "m", "p", "a", "n", "y", ".", "o", "r", "g">>, RuleCompanyOrg)>>,
     global_settings |-> [default_max_retries |-> 3,
                          default_timeout_seconds |-> 30,
                          default_max_size_mb |-> 10]]

\* The senders of test_email_filtering and of the end-to-end scenario.
UserAtTrusted == <<"u", "s", "e", "r", "@", "t", "r", "u", "s", "t", "e", "d", ".", "c", "o", "m">>
UserAtUntrusted == <<"u", "s", "e", "r", "@", "u", "n", "t", "r", "u", "s", "t", "e", "d", ".", "c", "o", "m">>
UserAtNormal == <<"u", "s", "e", "r", "@", "n", "o", "r", "m", "a", "l", ".", "c", "o", "m">>
NoreplyAtAnywhere == <<"n", "o", "r", "e", "p", "l", "y", "@", "a", "n", "y", "w", "h", "e", "r", "e", ".", "c", "o", "m">>
AnyoneAtSpam == <<"a", "n", "y", "o", "n", "e", "@", "s", "p", "a", "m", ".", "c", "o", "m">>
TestAtExample == <<"t", "e", "s", "t", "@", "e", "x", "a", "m", "p", "l", "e", ".", "c", "o", "m">>

\* Filter blocks: every choice of an allowed_senders, a blocked_senders and
\* a blocked_domains entry, each of which may be missing.
AllowedChoices ==
    {EmptyDict} \cup
    {[allowed_senders |-> v] :
        v \in {<<Star>>, <<>>, <<Addr("*", "y")>>, <<<<"@", "y">>>>,
                <<Addr("A", "y"), Addr("*", "x")>>}}

BlockedSenderChoices ==
    {EmptyDict} \cup
    {[blocked_senders |-> v] : v \in {<<>>, <<Addr("b", "*")>>, <<Addr("*", "Y")>>}}

BlockedDomainChoices ==
    {EmptyDict} \cup
    {[blocked_domains |-> v] : v \in {<<>>, <<<<"X">>>>, <<<<"z">>, <<"y">>>>}}

FilterBlocks ==
    {a @@ b @@ c : a \in AllowedChoices, b \in BlockedSenderChoices, c \in BlockedDomainChoices}

\* A document of one rule for *@x with the given blocks.
DocOf(rule_blocks, doc_blocks) ==
    [version |-> "1.0",
     domains |-> <<Item(<<"x">>,
                        [webhook_url |-> "https://x/hook",
                         patterns |-> <<Addr("*", "x")>>] @@ rule_blocks)>>]
    @@ doc_blocks

FilterDocs == {DocOf([filters |-> f], EmptyDict) : f \in FilterBlocks}

\* Rules and documents that set some, all or none of the merged fields.
RetryChoices ==
    {EmptyDict} \cup
    {[retry_config |-> v] :
        v \in {EmptyDict, [max_retries |-> 5], [timeout_seconds |-> 6],
                [max_retries |-> 5, timeout_seconds |-> 6]}}

SizeChoices ==
    {EmptyDict} \cup {[filters |-> v] : v \in {EmptyDict, [max_size_mb |-> 2]}}

GlobalChoices ==
    {EmptyDict} \cup
    {[global_settings |-> v] :
        v \in {EmptyDict, [default_max_retries |-> 1],
                [default_max_retries |-> 1, default_timeout_seconds |-> 20,
                 default_max_size_mb |-> 7]}}

MergeDocs ==
    {DocOf(r @@ f, g) : r \in RetryChoices, f \in SizeChoices, g \in GlobalChoices}

\* Senders: plain, upper case, without "@", with two "@".
Senders ==
    {Addr("a", "y"), Addr("b", "y"), Addr("a", "x"), Addr("A", "Y"),
     <<"a", "y">>, <<"a", "@", "y", "@", "x">>}

\* What s3_client.get_object(config bucket, config key) can answer.
NoSuchKey == [tag |-> "NoSuchKey"]
S3Error == [tag |-> "Error"]
S3Object(doc) == [tag |-> "Object", doc |-> doc]

StoreStates ==
    {NoSuchKey, S3Error, S3Object(DocTwo), S3Object(DocReordered),
     S3Object(DocEmptyDomains), S3Object(DocNoDomains)}

\* os.environ (the legacy settings); numeric settings hold the int that
\* int() yields, as Config.__init__ parsed them when the module loaded.
EnvFull ==
    [DOMAIN_NAME |-> <<"x">>,
     TARGET_WEBHOOK_URL |-> "https://env/hook",
     WEBHOOK_SECRET |-> "secret-env",
     ALLOWED_DOMAINS |-> <<"y", ",", "x">>,
     MAX_RETRIES |-> 2,
     MAX_EMAIL_SIZE_MB |-> 4,
     S3_BUCKET |-> "default-bucket"]

EnvMinimal ==
    [DOMAIN_NAME |-> <<"y">>, TARGET_WEBHOOK_URL |-> "https://env/hook",
     S3_BUCKET |-> "default-bucket"]

EnvNoDomain ==
    [TARGET_WEBHOOK_URL |-> "https://env/hook", MAX_RETRIES |-> 2,
     S3_BUCKET |-> "default-bucket"]

EnvNoUrl == [DOMAIN_NAME |-> <<"x">>]

Envs == {EnvFull, EnvMinimal, EnvNoDomain, EnvNoUrl}

\* Recipient and sender addresses.
Addresses == {Addr("a", "x"), Addr("b", "x"), Addr("a", "y"), Addr("B", "Y"), Addr("c", "z")}

\* ------------------------------------------------- DomainConfigManager

CacheTtl == 300

\* A time.time() reading.
Ts(t) == [tag |-> "float", v |-> t]

\* Mutant: an entry exactly _cache_ttl old still counts as valid.
IsCacheValidInclusive(cache, ts, now) ==
    IF cache = NoneV \/ ts = NoneV THEN FALSE
    ELSE now - ts.v <= CacheTtl

\* DomainConfigManager._is_cache_valid
IsCacheValid(cache, ts, now) ==
    IF cache = NoneV \/ ts = NoneV THEN FALSE
    ELSE now - ts.v < CacheTtl

\* DomainConfigManager._load_config_from_s3
LoadConfigFromS3(store) ==
    IF store.tag = "Object" THEN store.doc
    ELSE [domains |-> <<>>, global_settings |-> EmptyDict]

\* DomainConfigManager._load_config_from_env
LoadConfigFromEnv(env) ==
    LET domain_name == Get(env, "DOMAIN_NAME", <<>>)
        webhook_url == Get(env, "TARGET_WEBHOOK_URL", "")
        webhook_secret == Get(env, "WEBHOOK_SECRET", "")
        allowed_domains == Get(env, "ALLOWED_DOMAINS", <<>>)
    IN  IF ~TruthySeq(domain_name) \/ ~TruthyStr(webhook_url)
        THEN [domains |-> <<>>, global_settings |-> EmptyDict]
        ELSE [domains |->
                <<Item(domain_name,
                       [webhook_url |-> webhook_url,
                        webhook_secret |-> webhook_secret,
                        patterns |-> <<<<"*", "@">> \o domain_name>>,
                        filters |->
                          [max_size_mb |-> Get(env, "MAX_EMAIL_SIZE_MB", 10),
                           allowed_senders |->
                             IF TruthySeq(allowed_domains)
                             THEN Split(allowed_domains, ",")
                             ELSE <<Star>>,
                           blocked_senders |-> <<>>,
                           blocked_domains |-> <<>>]])>>,
              global_settings |->
                [default_max_retries |-> Get(env, "MAX_RETRIES", 3),
                 default_timeout_seconds |-> Get(env, "TIMEOUT_SECONDS", 30),
                 default_max_size_mb |-> Get(env, "MAX_EMAIL_SIZE_MB", 10)]]

\* Mutant: a refresh of a cache that already held a document keeps the
\* global settings stored with that older document.
GetConfigStaleGlobals(cache, ts, gs, store, env, now) ==
    IF IsCacheValid(cache, ts, now)
    THEN [config |-> cache, cache |-> cache, ts |-> ts, gs |-> gs, fetched |-> FALSE]
    ELSE LET fromS3 == LoadConfigFromS3(store)
             config == IF ~TruthySeq(Get(fromS3, "domains", <<>>))
                       THEN LoadConfigFromEnv(env)
                       ELSE fromS3
         IN  [config |-> config,
              cache |-> config,
              ts |-> Ts(now),
              gs |-> IF cache = NoneV THEN Get(config, "global_settings", EmptyDict) ELSE gs,
              fetched |-> TRUE]

\* Mutant: only a document that came from the remote store is cached.
GetConfigFallbackNotCached(cache, ts, gs, store, env, now) ==
    IF IsCacheValid(cache, ts, now)
    THEN [config |-> cache, cache |-> cache, ts |-> ts, gs |-> gs, fetched |-> FALSE]
    ELSE LET fromS3 == LoadConfigFromS3(store)
         IN  IF ~TruthySeq(Get(fromS3, "domains", <<>>))
             THEN [config |-> LoadConfigFromEnv(env), cache |-> NoneV, ts |-> NoneV,
                   gs |-> Get(LoadConfigFromEnv(env), "global_settings", EmptyDict),
                   fetched |-> TRUE]
             ELSE [config |-> fromS3, cache |-> fromS3, ts |-> Ts(now),
                   gs |-> Get(fromS3, "global_settings", EmptyDict), fetched |-> TRUE]

\* Mutant: the legacy fallback is taken only when the fetch itself failed,
\* not when the fetched document has no domains.
GetConfigNoFallbackOnEmpty(cache, ts, gs, store, env, now) ==
    IF IsCacheValid(cache, ts, now)
    THEN [config |-> cache, cache |-> cache, ts |-> ts, gs |-> gs, fetched |-> FALSE]
    ELSE LET config == IF store.tag # "Object"
                       THEN LoadConfigFromEnv(env)
                       ELSE store.doc
         IN  [config |-> config,
              cache |-> config,
              ts |-> Ts(now),
              gs |-> Get(config, "global_settings", EmptyDict),
              fetched |-> TRUE]

\* DomainConfigManager.get_config: the document returned, the manager's
\* fields afterwards, and whether the remote store was asked.
GetConfig(cache, ts, gs, store, env, now) ==
    IF IsCacheValid(cache, ts, now)
    THEN [config |-> cache, cache |-> cache, ts |-> ts, gs |-> gs, fetched |-> FALSE]
    ELSE LET fromS3 == LoadConfigFromS3(store)
             config == IF ~TruthySeq(Get(fromS3, "domains", <<>>))
                       THEN LoadConfigFromEnv(env)
                       ELSE fromS3
         IN  [config |-> config,
              cache |-> config,
              ts |-> Ts(now),
              gs |-> Get(config, "global_settings", EmptyDict),
              fetched |-> TRUE]

\* Mutant: the defaults fill in a block only when the rule has no such
\* block at all.
MergeWholeBlocks(domain_config, gs) ==
    LET rc == IF "retry_config" \in DOMAIN domain_config THEN domain_config.retry_config
              ELSE [max_retries |-> Get(gs, "default_max_retries", 3),
                    timeout_seconds |-> Get(gs, "default_timeout_seconds", 30)]
        f == IF "filters" \in DOMAIN domain_config THEN domain_config.filters
             ELSE [max_size_mb |-> Get(gs, "default_max_size_mb", 10)]
    IN  [merged |-> Put(Put(domain_config, "retry_config", rc), "filters", f),
         stored |-> domain_config]

\* DomainConfigManager._merge_with_global_settings.  merged is the dict
\* returned; stored is the rule as the cached document holds it afterwards:
\* merged is a shallow copy, so a key added to merged stays out of the
\* cached rule, while a retry_config or filters dict the rule already has is
\* the very dict the defaults are written into.
MergeWithGlobalSettings(domain_config, gs) ==
    LET rc0 == Get(domain_config, "retry_config", EmptyDict)
        rc1 == IF "max_retries" \in DOMAIN rc0 THEN rc0
               ELSE Put(rc0, "max_retries", Get(gs, "default_max_retries", 3))
        rc2 == IF "timeout_seconds" \in DOMAIN rc1 THEN rc1
               ELSE Put(rc1, "timeout_seconds", Get(gs, "default_timeout_seconds", 30))
        f0 == Get(domain_config, "filters", EmptyDict)
        f1 == IF "max_size_mb" \in DOMAIN f0 THEN f0
              ELSE Put(f0, "max_size_mb", Get(gs, "default_max_size_mb", 10))
        s1 == IF "retry_config" \in DOMAIN domain_config
              THEN Put(domain_config, "retry_config", rc2)
              ELSE domain_config
        s2 == IF "filters" \in DOMAIN domain_config
              THEN Put(s1, "filters", f1)
              ELSE s1
    IN  [merged |-> Put(Put(domain_config, "retry_config", rc2), "filters", f1),
         stored |-> s2]

\* Mutant: the pattern is matched as written.
RecipientMatchesPatternAsIs(email, pattern) == MatchesPattern(Lower(email), pattern)

\* self._matches_pattern(email.lower(), pattern.lower()) in
\* get_domain_config_for_email.
RecipientMatches(email, pattern) == MatchesPattern(Lower(email), Lower(pattern))

\* The inner loop of get_domain_config_for_email: some pattern of the rule
\* matches the address, both lower-cased.
RECURSIVE AnyPatternMatches(_, _, _)
AnyPatternMatches(patterns, email, j) ==
    IF j > Len(patterns) THEN FALSE
    ELSE IF RecipientMatches(email, patterns[j]) THEN TRUE
    ELSE AnyPatternMatches(patterns, email, j + 1)

\* Mutant: a later matching rule replaces an earlier one (the loop does
\* not return at the first match).
RECURSIVE FindRuleLast(_, _, _)
FindRuleLast(domains, email, i) ==
    IF i > Len(domains) THEN 0
    ELSE LET later == FindRuleLast(domains, email, i + 1)
         IN  IF later # 0 THEN later
             ELSE IF AnyPatternMatches(Get(domains[i].rule, "patterns", <<>>), email, 1)
                  THEN i
             ELSE 0

\* The outer loop of get_domain_config_for_email: the index of the rule the
\* loop returns from, scanning from item i; 0 when the loop runs out.
RECURSIVE FindRule(_, _, _)
FindRule(domains, email, i) ==
    IF i > Len(domains) THEN 0
    ELSE IF AnyPatternMatches(Get(domains[i].rule, "patterns", <<>>), email, 1) THEN i
    ELSE FindRule(domains, email, i + 1)

\* The DomainConfig built from a merged rule (which has webhook_url).
MakeDomainConfig(merged) ==
    [webhook_url |-> merged["webhook_url"],
     webhook_secret |-> Get(merged, "webhook_secret", ""),
     patterns |-> merged["patterns"],
     filters |-> Get(merged, "filters", EmptyDict),
     payload_format |-> Get(merged, "payload_format", "standard"),
     custom_headers |-> Get(merged, "custom_headers", EmptyDict),
     retry_config |-> Get(merged, "retry_config", EmptyDict)]

\* DomainConfigManager.get_domain_config_for_email on the document config
\* that get_config returned (the cached object itself): kind is "route"
\* (result is the DomainConfig), "none" (returns None) or "raise" (KeyError
\* for a matching rule without webhook_url); config is the cached document
\* after the call.
GetDomainConfigForEmail(config, gs, email) ==
    LET domains == Get(config, "domains", <<>>)
        i == FindRule(domains, email, 1)
    IN  IF i = 0
        THEN [kind |-> "none", result |-> NoneV, config |-> config, rule |-> 0]
        ELSE LET m == MergeWithGlobalSettings(domains[i].rule, gs)
                 after == Put(config, "domains",
                              [domains EXCEPT ![i] = Item(domains[i].name, m.stored)])
             IN  IF "webhook_url" \in DOMAIN m.merged
                 THEN [kind |-> "route", result |-> MakeDomainConfig(m.merged),
                       config |-> after, rule |-> i]
                 ELSE [kind |-> "raise", result |-> [type |-> "KeyError"],
                       config |-> after, rule |-> i]

\* "@" in sender
RECURSIVE Contains(_, _)
Contains(s, c) == IF s = <<>> THEN FALSE ELSE Head(s) = c \/ Contains(Tail(s), c)

\* self._matches_pattern(sender, pattern.lower()) in _passes_filters,
\* where sender is metadata.from_address.lower().
SenderMatches(sender, pattern) == MatchesPattern(sender, Lower(pattern))

\* A for-loop over patterns that stops at the first match of sender.
RECURSIVE AnyMatch(_, _, _)
AnyMatch(patterns, sender, j) ==
    IF j > Len(patterns) THEN FALSE
    ELSE IF SenderMatches(sender, patterns[j]) THEN TRUE
    ELSE AnyMatch(patterns, sender, j + 1)

\* Mutant: the allow list is consulted before the block lists.
PassesFiltersAllowFirst(from_address, config) ==
    LET filters == config.filters
        allowed_senders == Get(filters, "allowed_senders", <<Star>>)
        blocked_senders == Get(filters, "blocked_senders", <<>>)
        blocked_domains == Get(filters, "blocked_domains", <<>>)
        sender == Lower(from_address)
        parts == Split(sender, "@")
        sender_domain == IF Contains(sender, "@") THEN parts[Len(parts)] ELSE <<>>
    IN  IF allowed_senders = <<Star>> \/ AnyMatch(allowed_senders, sender, 1) THEN TRUE
        ELSE IF AnyMatch(blocked_senders, sender, 1) THEN FALSE
        ELSE IF \E k \in 1..Len(blocked_domains) : sender_domain = Lower(blocked_domains[k])
             THEN FALSE
        ELSE FALSE

\* Mutant: an empty allow list is taken to allow everybody.
PassesFiltersEmptyAllowsAll(from_address, config) ==
    LET filters == config.filters
        allowed_senders == Get(filters, "allowed_senders", <<Star>>)
        blocked_senders == Get(filters, "blocked_senders", <<>>)
        blocked_domains == Get(filters, "blocked_domains", <<>>)
        sender == Lower(from_address)
        parts == Split(sender, "@")
        sender_domain == IF Contains(sender, "@") THEN parts[Len(parts)] ELSE <<>>
    IN  IF AnyMatch(blocked_senders, sender, 1) THEN FALSE
        ELSE IF \E k \in 1..Len(blocked_domains) : sender_domain = Lower(blocked_domains[k])
             THEN FALSE
        ELSE IF allowed_senders # <<>> /\ allowed_senders # <<Star>>
             THEN AnyMatch(allowed_senders, sender, 1)
        ELSE TRUE

\* DomainConfigManager._passes_filters
PassesFilters(from_address, config) ==
    LET filters == config.filters
        allowed_senders == Get(filters, "allowed_senders", <<Star>>)
        blocked_senders == Get(filters, "blocked_senders", <<>>)
        blocked_domains == Get(filters, "blocked_domains", <<>>)
        sender == Lower(from_address)
        parts == Split(sender, "@")
        sender_domain == IF Contains(sender, "@") THEN parts[Len(parts)] ELSE <<>>
    IN  IF AnyMatch(blocked_senders, sender, 1) THEN FALSE
        ELSE IF \E k \in 1..Len(blocked_domains) : sender_domain = Lower(blocked_domains[k])
             THEN FALSE
        ELSE IF allowed_senders # <<Star>>
             THEN AnyMatch(allowed_senders, sender, 1)
        ELSE TRUE

\* ------------------------------------------------------------- the state

VARIABLES
    \* DomainConfigManager fields (the module-level domain_config_manager)
    _config_cache, _cache_timestamp, _global_settings,
    \* the world: time.time(), the remote configuration object, os.environ
    now, s3_config, environ,
    \* the last call made directly on the manager (NoneV before any)
    last_call,
    \* where control is, and the exception being raised (NoneV if none)
    pc, exc,
    \* send_webhook: its domain_config argument, the loop variable, the last
    \* wait_time (in 1/JitterDen s), the POSTs and sleeps of this call, and
    \* what the last POST came back with
    domain_config, attempt, wait_time, posts, sleeps, last_response,
    \* send_webhook: the serialized payload, the headers dict, and the
    \* distinct requests POSTed by this call
    payload_json, headers, requests,
    \* lambda_handler: the records of the batch not reached yet, what became
    \* of those reached (in batch order), and what the handler returned
    remaining, log, response,
    \* lambda_handler's loop variable: the record taken last, while it is in use
    record,
    \* process_ses_email: its ses_data argument, metadata, the position of
    \* is_email_allowed in to_addresses, the EmailContent, and how often the
    \* raw body was requested from storage for this record, the Bucket and
    \* Key of that request, and what storage answered
    ses_data, metadata, rcpt_i, email_content, gets, location, body_response

mgr_vars == <<_config_cache, _cache_timestamp, _global_settings>>
world_vars == <<now, s3_config, environ>>
ctl_vars == <<pc, exc>>
send_vars == <<domain_config, attempt, wait_time, posts, sleeps, last_response,
               payload_json, headers, requests>>
handler_vars == <<remaining, log, response, record>>
proc_vars == <<ses_data, metadata, rcpt_i, email_content, gets, location, body_response>>
vars == <<mgr_vars, world_vars, last_call, ctl_vars, send_vars, handler_vars, proc_vars>>

\* Nothing is running.
InitIdle ==
    /\ pc = "idle"
    /\ exc = NoneV
    /\ domain_config = NoneV
    /\ attempt = 0
    /\ wait_time = 0
    /\ posts = 0
    /\ sleeps = 0
    /\ last_response = NoneV
    /\ payload_json = NoneV
    /\ headers = NoneV
    /\ requests = {}
    /\ remaining = 0
    /\ log = <<>>
    /\ response = NoneV
    /\ record = NoneV
    /\ ses_data = NoneV
    /\ metadata = NoneV
    /\ rcpt_i = 0
    /\ email_content = NoneV
    /\ gets = 0
    /\ location = NoneV
    /\ body_response = NoneV

\* DomainConfigManager.__init__, with any environment and remote object.
InitManager ==
    /\ _config_cache = NoneV
    /\ _cache_timestamp = NoneV
    /\ _global_settings = EmptyDict

InitWorld ==
    /\ now = 0
    /\ s3_config \in StoreStates
    /\ environ \in Envs

\* The world is looked at only by get_config (the clock, the remote
\* object): whatever happens to it while control is elsewhere is taken to
\* happen when control is next at a point a get_config call follows.
WorldObserved == pc \in {"idle", "is_allowed"}

\* Time passes.
Tick ==
    /\ WorldObserved
    /\ now + TickStep <= MaxTime
    /\ now' = now + TickStep
    /\ UNCHANGED <<mgr_vars, s3_config, environ, last_call, ctl_vars, send_vars, handler_vars, proc_vars>>

\* Somebody uploads, replaces, breaks or deletes the remote document.
StoreChange ==
    /\ WorldObserved
    /\ \E s \in StoreStates \ {s3_config} : s3_config' = s
    /\ UNCHANGED <<mgr_vars, now, environ, last_call, ctl_vars, send_vars, handler_vars, proc_vars>>

\* A direct call of get_config().
CallGetConfig ==
    LET r == GetConfig(_config_cache, _cache_timestamp, _global_settings,
                       s3_config, environ, now)
    IN  /\ pc = "idle"
        /\ _config_cache' = r.cache
        /\ _cache_timestamp' = r.ts
        /\ _global_settings' = r.gs
        /\ last_call' = [op |-> "get_config", at |-> now, store |-> s3_config,
                         pre_cache |-> _config_cache, pre_ts |-> _cache_timestamp,
                         fetched |-> r.fetched, result |-> r.config,
                         post_cache |-> r.cache, post_ts |-> r.ts, post_gs |-> r.gs]
        /\ UNCHANGED <<world_vars, ctl_vars, send_vars, handler_vars, proc_vars>>

\* A direct call of get_domain_config_for_email(email).
CallGetDomainConfigForEmail ==
    \E email \in Addresses :
        LET c == GetConfig(_config_cache, _cache_timestamp, _global_settings,
                           s3_config, environ, now)
            r == GetDomainConfigForEmail(c.cache, c.gs, email)
        IN  /\ pc = "idle"
            /\ _config_cache' = r.config
            /\ _cache_timestamp' = c.ts
            /\ _global_settings' = c.gs
            /\ last_call' = [op |-> "get_domain_config_for_email", email |-> email,
                             document |-> c.config, kind |-> r.kind, result |-> r.result]
            /\ UNCHANGED <<world_vars, ctl_vars, send_vars, handler_vars, proc_vars>>

NextConfig == Tick \/ StoreChange \/ CallGetConfig \/ CallGetDomainConfigForEmail

InitConfig == InitManager /\ InitWorld /\ last_call = NoneV /\ InitIdle

\* The manager driven directly, as its unit tests drive it.
SpecConfig == InitConfig /\ [][NextConfig]_vars

\* --------------------------------------------------------- send_webhook

MaxWait == 60

\* What client.post can come back with: a response with a status code, or
\* an exception (httpx.TimeoutException, httpx.RequestError, any other).
PostOutcomes ==
    {[kind |-> "status", code |-> c] : c \in {200, 201, 202, 204, 500}}
    \cup {[kind |-> k] : k \in {"TimeoutException", "RequestError", "Exception"}}

\* Mutant: only 200 counts as delivered.
IsSuccessOnly200(code) == code = 200

\* response.status_code in [200, 201, 202]
IsSuccess(code) == code \in {200, 201, 202}

\* Mutant: the final "except Exception" clause is missing.
CatchesHttpxOnly(kind) == kind \in {"TimeoutException", "RequestError"}

\* The except clauses of the retry loop's try block.
Catches(kind) == kind \in {"TimeoutException", "RequestError", "Exception"}

\* Mutant: a wait follows the last attempt too.
ShouldSleepAlways(a, max_retries) == a < max_retries

\* attempt < max_retries - 1
ShouldSleep(a, max_retries) == a < max_retries - 1

RECURSIVE Pow2(_)
Pow2(n) == IF n <= 0 THEN 1 ELSE 2 * Pow2(n - 1)

Min(a, b) == IF a <= b THEN a ELSE b

\* Mutant: the wait is not capped.
WaitTimeUncapped(a, j) == Pow2(a) * JitterDen + j

\* min(2 ** attempt + (time.time() % 1), 60), in units of 1/JitterDen s,
\* the jitter being j/JitterDen.
WaitTime(a, j) == Min(Pow2(a) * JitterDen + j, MaxWait * JitterDen)

\* Mutant: at least one attempt is made whatever max_retries says.
MaxRetriesAtLeastOne(config) ==
    IF Get(config.retry_config, "max_retries", 3) < 1 THEN 1
    ELSE Get(config.retry_config, "max_retries", 3)

\* domain_config.retry_config.get('max_retries', 3)
MaxRetriesOf(config) == Get(config.retry_config, "max_retries", 3)

\* domain_config.retry_config.get('timeout_seconds', 30)
TimeoutOf(config) == Get(config.retry_config, "timeout_seconds", 30)

\* The fixed User-Agent.
UserAgent == "AWS-SES-Lambda-Bridge/2.0"

\* A str header value is the concatenation of its pieces.
Text(str) == <<str>>

\* d.update(e)
Update(d, e) == e @@ d

\* WebhookPayload.to_dict() (dataclasses.asdict): a dict is a sequence of
\* (key, value) items in field order.
PayloadToDict(md, content) ==
    <<<<"event_type", "email_received">>,
      <<"metadata", <<<<"message_id", md.message_id>>,
                      <<"timestamp", md.timestamp>>,
                      <<"from_address", md.from_address>>,
                      <<"to_addresses", md.to_addresses>>,
                      <<"subject", md.subject>>,
                      <<"correlation_id", md.correlation_id>>>>>>,
      <<"content", <<<<"text", content.text>>, <<"html", content.html>>>>>>>>

\* The keys of the payload in the order sort_keys puts them.
KeyOrder ==
    <<"content", "correlation_id", "event_type", "from_address", "html", "message_id",
      "metadata", "subject", "text", "timestamp", "to_addresses">>

KeyRank(k) == CHOOSE i \in 1..Len(KeyOrder) : KeyOrder[i] = k

\* One JSON object written with sort_keys=True.
JsonObject(items) == SortSeq(items, LAMBDA a, b : KeyRank(a[1]) < KeyRank(b[1]))

\* json.dumps(payload_dict, sort_keys=True): the text, as the sequence of
\* its members in the order written.
JsonDumps(d) ==
    JsonObject([i \in 1..Len(d) |->
                  IF d[i][1] \in {"metadata", "content"}
                  THEN <<d[i][1], JsonObject(d[i][2])>>
                  ELSE d[i]])

\* hmac.new(key, msg, hashlib.sha256).hexdigest(): the digest stands for
\* its (key, msg); two digests are equal only if both are.
Hmac(key, msg) == [alg |-> "hmac-sha256", key |-> key, msg |-> msg]

\* The headers dict send_webhook builds before its loop.
SendHeaders(config, body, correlation_id) ==
    LET base == ("Content-Type" :> Text("application/json"))
                @@ ("User-Agent" :> Text(UserAgent))
                @@ ("X-Correlation-ID" :> Text(correlation_id))
        custom == [k \in DOMAIN config.custom_headers |-> Text(config.custom_headers[k])]
        updated == Update(base, custom)
    IN  IF TruthyStr(config.webhook_secret)
        THEN Put(updated, "X-Webhook-Signature",
                 <<"sha256=", Hmac(config.webhook_secret, body)>>)
        ELSE updated

\* send_webhook up to its loop: serialize the payload, build the headers.
SendPrepare ==
    /\ pc = "send_enter"
    /\ LET body == JsonDumps(PayloadToDict(metadata, email_content))
       IN  /\ payload_json' = body
           /\ headers' = SendHeaders(domain_config, body, metadata.correlation_id)
    /\ pc' = "send"
    /\ UNCHANGED <<mgr_vars, world_vars, last_call, exc, domain_config, attempt, wait_time,
                   posts, sleeps, last_response, requests, handler_vars, proc_vars>>

\* One pass through the loop body up to the wait: "return" on success,
\* "escape" for an exception no clause catches, else on to the wait
\* ("sleep") or straight to the next iteration ("next").
AfterAttempt(outcome, a, max_retries) ==
    IF outcome.kind = "status" /\ IsSuccess(outcome.code) THEN "return"
    ELSE IF outcome.kind # "status" /\ ~Catches(outcome.kind) THEN "escape"
    ELSE IF ShouldSleep(a, max_retries) THEN "sleep"
    ELSE "next"

\* One iteration of "for attempt in range(max_retries)": the POST and what
\* the try block makes of its outcome.
SendAttemptWith(outcomes) ==
    /\ pc = "send"
    /\ attempt < MaxRetriesOf(domain_config)
    /\ \E outcome \in outcomes :
        LET after == AfterAttempt(outcome, attempt, MaxRetriesOf(domain_config))
        IN  /\ posts' = posts + 1
            /\ requests' = requests \cup
                    {[url |-> domain_config.webhook_url,
                      content |-> payload_json,
                      headers |-> headers,
                      timeout |-> TimeoutOf(domain_config)]}
            /\ last_response' = outcome
            /\ pc' = CASE after = "return" -> "send_returned"
                        [] after = "escape" -> "send_raised"
                        [] after = "sleep" -> "sleep"
                        [] OTHER -> "send"
            /\ exc' = IF after = "escape" THEN [type |-> outcome.kind] ELSE exc
            /\ attempt' = IF after = "next" THEN attempt + 1 ELSE attempt
    /\ UNCHANGED <<mgr_vars, world_vars, last_call, domain_config, wait_time, sleeps,
                   payload_json, headers, handler_vars, proc_vars>>

SendAttempt == SendAttemptWith(PostOutcomes)

\* await asyncio.sleep(wait_time), then the next iteration.
SendSleep ==
    /\ pc = "sleep"
    /\ \E j \in 0..(JitterDen - 1) : wait_time' = WaitTime(attempt, j)
    /\ sleeps' = sleeps + 1
    /\ attempt' = attempt + 1
    /\ pc' = "send"
    /\ UNCHANGED <<mgr_vars, world_vars, last_call, exc, domain_config, posts, last_response,
                   payload_json, headers, requests, handler_vars, proc_vars>>

\* The loop is over: raise WebhookDeliveryError(error_msg).
SendExhausted ==
    /\ pc = "send"
    /\ attempt >= MaxRetriesOf(domain_config)
    /\ exc' = [type |-> "WebhookDeliveryError",
               url |-> domain_config.webhook_url,
               attempts |-> MaxRetriesOf(domain_config)]
    /\ pc' = "send_raised"
    /\ UNCHANGED <<mgr_vars, world_vars, last_call, send_vars, handler_vars, proc_vars>>

\* A DomainConfig as a caller of send_webhook may pass it.
SendRoute(url, secret, custom, rc) ==
    [webhook_url |-> url, webhook_secret |-> secret, patterns |-> <<Star>>,
     filters |-> [max_size_mb |-> 10], payload_format |-> "standard",
     custom_headers |-> custom, retry_config |-> rc]

\* custom_headers of a route: none, one of its own, ones named like the
\* headers send_webhook sets itself.
CustomHeaderSets ==
    {EmptyDict,
     [Authorization |-> "Bearer t"],
     ("X-Webhook-Signature" :> "sha256=00"),
     ("Content-Type" :> "text/plain") @@ ("X-Correlation-ID" :> "mine")}

SendRoutes ==
    {SendRoute(u, secret, custom, rc) :
        u \in {"https://x/hook", "https://a/hook"},
        secret \in {"", "secret-x"},
        custom \in CustomHeaderSets,
        rc \in {EmptyDict} \cup {[max_retries |-> n, timeout_seconds |-> 30] :
                                    n \in (-1)..MaxRetriesBound}}

\* The payload argument: the metadata and content it is built from.
SendMetadata ==
    [message_id |-> "msg-1", timestamp |-> "2024-01-15T10:00:00Z",
     from_address |-> Addr("a", "y"), to_addresses |-> <<Addr("a", "x")>>,
     subject |-> "Test", correlation_id |-> "correlation-1"]

\* send_webhook called with any route.
InitSend ==
    /\ InitManager
    /\ now = 0
    /\ s3_config = NoSuchKey
    /\ environ = EnvMinimal
    /\ last_call = NoneV
    /\ pc = "send_enter"
    /\ exc = NoneV
    /\ domain_config \in SendRoutes
    /\ attempt = 0
    /\ wait_time = 0
    /\ posts = 0
    /\ sleeps = 0
    /\ last_response = NoneV
    /\ payload_json = NoneV
    /\ headers = NoneV
    /\ requests = {}
    /\ remaining = 0
    /\ log = <<>>
    /\ response = NoneV
    /\ record = NoneV
    /\ ses_data = NoneV
    /\ metadata = SendMetadata
    /\ rcpt_i = 0
    /\ email_content \in {[text |-> "hello", html |-> ""], [text |-> "", html |-> "<p>hi</p>"]}
    /\ gets = 0
    /\ location = NoneV
    /\ body_response = NoneV

NextSend == SendPrepare \/ SendAttempt \/ SendSleep \/ SendExhausted

\* One delivery, from the call to its return or raise.
SpecSend == InitSend /\ [][NextSend]_vars

\* The interpreter runs the coroutine on: every POST returns or times out
\* and every sleep ends.
FairSpecSend == SpecSend /\ WF_vars(NextSend)

\* ------------------------------------ lambda_handler, process_ses_email

\* ses_data['mail'] of an SES record.
Mail(source, destination) ==
    [messageId |-> "msg-1", timestamp |-> "2024-01-15T10:00:00Z",
     source |-> source, destination |-> destination,
     commonHeaders |-> [subject |-> "Test"]]

\* A JSON array, as opposed to a JSON object (isinstance(v, list)).
ListOf(items) == [list |-> items]

IsList(v) == DOMAIN v = {"list"}

S3Action(bucket, key) == [type |-> "s3", bucketName |-> bucket, objectKey |-> Text(key)]

LambdaAction == [type |-> "Lambda", invocationType |-> "Event"]

\* ses_data['receipt'] whose action is a single S3 action.
Receipt == [action |-> S3Action("mail-bucket", "inbox/msg-1")]

\* The receipt SES hands to a Lambda action.
ReceiptLambda == [action |-> LambdaAction]

SesRecordWith(mail, receipt) ==
    [eventSource |-> "aws:ses", ses |-> [mail |-> mail, receipt |-> receipt]]

SesRecord(mail) == SesRecordWith(mail, Receipt)

\* The records an event can hold: one of another event source, well-formed
\* SES records, one without mail.source, one without commonHeaders, one
\* each without messageId, timestamp and destination, and one with two
\* recipients whose receipt holds the Lambda action instead of an S3
\* action.
RecordSet ==
    {[eventSource |-> "aws:s3"]}
    \cup {SesRecord(Mail(m[1], m[2])) :
            m \in {<<Addr("a", "y"), <<Addr("a", "x")>>>>,
                   <<Addr("a", "y"), <<Addr("c", "z")>>>>,
                   <<Addr("a", "y"), <<Addr("b", "x")>>>>,
                   <<Addr("b", "x"), <<Addr("a", "y")>>>>,
                   <<Addr("b", "x"), <<Addr("a", "y"), Addr("a", "x")>>>>}}
    \cup {SesRecord([messageId |-> "msg-1", timestamp |-> "2024-01-15T10:00:00Z",
                     destination |-> <<Addr("a", "x")>>]),
          SesRecord([messageId |-> "msg-1", timestamp |-> "2024-01-15T10:00:00Z",
                     source |-> Addr("a", "y"), destination |-> <<Addr("a", "x")>>])}
    \cup {SesRecord([timestamp |-> "2024-01-15T10:00:00Z", source |-> Addr("a", "y"),
                     destination |-> <<Addr("a", "x")>>, commonHeaders |-> [subject |-> "Test"]]),
          SesRecord([messageId |-> "msg-1", source |-> Addr("a", "y"),
                     destination |-> <<Addr("a", "x")>>, commonHeaders |-> [subject |-> "Test"]]),
          SesRecord([messageId |-> "msg-1", timestamp |-> "2024-01-15T10:00:00Z",
                     source |-> Addr("a", "y"), commonHeaders |-> [subject |-> "Test"]])}
    \cup {SesRecordWith([messageId |-> "msg-2", timestamp |-> "2024-01-15T10:00:00Z",
                         source |-> Addr("a", "y"),
                         destination |-> <<Addr("a", "x"), Addr("c", "y")>>],
                        ReceiptLambda)}

\* Mutant: a missing field of mail reads as empty.
ExtractEmailMetadataLenient(ses, correlation_id) ==
    LET mail == ses.mail
    IN  [kind |-> "return",
         result |-> [message_id |-> Get(mail, "messageId", ""),
                     timestamp |-> Get(mail, "timestamp", ""),
                     from_address |-> Get(mail, "source", <<>>),
                     to_addresses |-> Get(mail, "destination", <<>>),
                     subject |-> Get(Get(mail, "commonHeaders", EmptyDict), "subject", ""),
                     correlation_id |-> correlation_id]]

\* extract_email_metadata: the EmailMetadata, or KeyError for a missing
\* mail['messageId'], ['timestamp'], ['source'] or ['destination'].
ExtractEmailMetadata(ses, correlation_id) ==
    LET mail == ses.mail
    IN  IF {"messageId", "timestamp", "source", "destination"} \subseteq DOMAIN mail
        THEN [kind |-> "return",
              result |-> [message_id |-> mail.messageId,
                          timestamp |-> mail.timestamp,
                          from_address |-> mail.source,
                          to_addresses |-> mail.destination,
                          subject |-> Get(Get(mail, "commonHeaders", EmptyDict), "subject", ""),
                          correlation_id |-> correlation_id]]
        ELSE [kind |-> "raise", result |-> [type |-> "KeyError"]]

\* Mutant: the last S3 action of the list is taken.
RECURSIVE LastS3Action(_, _)
LastS3Action(actions, i) ==
    IF i > Len(actions) THEN NoneV
    ELSE LET later == LastS3Action(actions, i + 1)
         IN  IF later # NoneV THEN later
             ELSE IF Get(actions[i], "type", "") = "s3" THEN actions[i]
             ELSE NoneV

\* "for action in action_data: if action.get('type') == 's3': ... break"
RECURSIVE FirstS3Action(_, _)
FirstS3Action(actions, i) ==
    IF i > Len(actions) THEN NoneV
    ELSE IF Get(actions[i], "type", "") = "s3" THEN actions[i]
    ELSE FirstS3Action(actions, i + 1)

\* The s3_action get_email_content finds in the receipt, or None.
FindS3Action(receipt) ==
    LET action_data == Get(receipt, "action", EmptyDict)
    IN  IF IsList(action_data) THEN FirstS3Action(action_data.list, 1)
        ELSE IF Get(action_data, "type", "") = "s3" THEN action_data
        ELSE NoneV

\* The Bucket and Key get_email_content asks storage for: those of the
\* receipt's S3 action, else S3_BUCKET and "emails/<message id>".  Without
\* S3_BUCKET the function returns at once; an S3 action without
\* bucketName or objectKey is a KeyError.
BodyLocation(ses, env) ==
    LET s3_action == FindS3Action(ses.receipt)
    IN  IF s3_action = NoneV
        THEN LET bucket == Get(env, "S3_BUCKET", "")
             IN  IF ~TruthyStr(bucket) THEN [kind |-> "return"]
                 ELSE [kind |-> "location", Bucket |-> bucket,
                       Key |-> <<"emails/", ses.mail.messageId>>]
        ELSE IF {"bucketName", "objectKey"} \subseteq DOMAIN s3_action
             THEN [kind |-> "location", Bucket |-> s3_action.bucketName,
                   Key |-> s3_action.objectKey]
        ELSE [kind |-> "raise", type |-> "KeyError"]

\* An email.message.Message: its content type, its Content-Disposition
\* header in pieces (<<>> when it has none) and its payload, the text of
\* a leaf ("" when empty) or the sub-parts of a multipart.
Leaf(content_type, disposition, payload) ==
    [content_type |-> content_type, disposition |-> disposition, payload |-> payload]

Multipart(disposition, parts) ==
    [content_type |-> "multipart/mixed", disposition |-> disposition, parts |-> parts]

\* msg.is_multipart()
IsMultipart(msg) == "parts" \in DOMAIN msg

\* msg.walk(): the message itself, then each sub-part's walk, in order.
RECURSIVE Walk(_)
RECURSIVE WalkAll(_, _)
Walk(msg) == IF IsMultipart(msg) THEN <<msg>> \o WalkAll(msg.parts, 1) ELSE <<msg>>

WalkAll(parts, i) ==
    IF i > Len(parts) THEN <<>> ELSE Walk(parts[i]) \o WalkAll(parts, i + 1)

\* 'attachment' in content_disposition
IsAttachment(disposition) == \E i \in 1..Len(disposition) : disposition[i] = "attachment"

\* part.get_payload(decode=True): None for a multipart.
GetPayload(part) == IF IsMultipart(part) THEN "" ELSE part.payload

\* The loop of parse_email_content over msg.walk(), from part i on, with
\* text_content and html_content as assigned so far.
RECURSIVE ScanParts(_, _, _, _)
ScanParts(parts, i, text_content, html_content) ==
    IF i > Len(parts) THEN [text |-> text_content, html |-> html_content]
    ELSE LET part == parts[i]
             payload == GetPayload(part)
         IN  IF IsAttachment(part.disposition) \/ ~TruthyStr(payload)
             THEN ScanParts(parts, i + 1, text_content, html_content)
             ELSE IF part.content_type = "text/plain"
             THEN ScanParts(parts, i + 1, payload, html_content)
             ELSE IF part.content_type = "text/html"
             THEN ScanParts(parts, i + 1, text_content, payload)
             ELSE ScanParts(parts, i + 1, text_content, html_content)

\* A raw body message_from_string parses to msg, and one it fails on.
Rfc822(msg) == [kind |-> "rfc822", msg |-> msg]

Garbage == [kind |-> "garbage"]

\* parse_email_content: the EmailContent; its "except Exception" turns a
\* failure into empty content.
ParseEmailContent(raw_email) ==
    IF raw_email.kind # "rfc822" THEN [text |-> "", html |-> ""]
    ELSE LET msg == raw_email.msg
         IN  IF IsMultipart(msg) THEN ScanParts(Walk(msg), 1, "", "")
             ELSE IF ~TruthyStr(msg.payload) THEN [text |-> "", html |-> ""]
             ELSE IF msg.content_type = "text/html" THEN [text |-> "", html |-> msg.payload]
             ELSE [text |-> msg.payload, html |-> ""]

\* What s3_client.get_object(Bucket, Key) can answer: an exception, or an
\* object of some ContentLength with some raw body.
BodyOutcomes ==
    {[kind |-> "error", type |-> "ClientError"],
     [kind |-> "object", length |-> 2048, raw |-> Garbage]}
    \cup {[kind |-> "object", length |-> n,
           raw |-> Rfc822(Leaf("text/plain", <<>>, "hello"))] :
            n \in {5 * 1024 * 1024, 5 * 1024 * 1024 + 1}}

\* Mutant: a body of exactly the ceiling counts as too large.
GetEmailContentInclusive(body, max_size_mb) ==
    IF body.kind = "error" THEN [text |-> "", html |-> ""]
    ELSE IF body.length >= max_size_mb * 1024 * 1024
         THEN [text |-> "Email too large to process", html |-> ""]
    ELSE ParseEmailContent(body.raw)

\* get_email_content once get_object has answered: the EmailContent.
GetEmailContent(body, max_size_mb) ==
    IF body.kind = "error" THEN [text |-> "", html |-> ""]
    ELSE IF body.length > max_size_mb * 1024 * 1024
         THEN [text |-> "Email too large to process", html |-> ""]
    ELSE ParseEmailContent(body.raw)

\* Mutant: get_email_content lets its exceptions through.
ContentCatchesNothing(type) == FALSE

\* "except Exception" at the end of get_email_content.
ContentCatches(type) == TRUE

\* get_email_content(ses_data, correlation_id, max_size_mb), where body is
\* what get_object answers if it is called: the EmailContent returned (or
\* the exception), and the Bucket and Key asked for (None when get_object
\* is not called).
GetEmailContentCall(ses, env, max_size_mb, body) ==
    LET where == BodyLocation(ses, env)
        asked == IF where.kind = "location"
                 THEN [Bucket |-> where.Bucket, Key |-> where.Key]
                 ELSE NoneV
        failure == IF where.kind = "raise" THEN where.type
                   ELSE IF where.kind = "location" /\ body.kind = "error" THEN body.type
                   ELSE ""
    IN  IF failure # "" /\ ~ContentCatches(failure)
        THEN [kind |-> "raise", result |-> [type |-> failure], asked |-> asked]
        ELSE [kind |-> "return",
              result |-> IF where.kind = "location"
                         THEN GetEmailContent(body, max_size_mb)
                         ELSE [text |-> "", html |-> ""],
              asked |-> asked]

\* Mutant: a message no route allows is an error.
AfterAllowedRaise(result) == IF result = NoneV THEN "raise" ELSE "content"

\* "if not domain_config: return" in process_ses_email.
AfterAllowed(result) == IF result = NoneV THEN "return" ELSE "content"

\* Mutant: only a delivery failure is wrapped.
ProcessCatchesDeliveryOnly(type) == type = "WebhookDeliveryError"

\* "except Exception" at the end of process_ses_email.
ProcessCatches(type) == TRUE

\* The locals of process_ses_email and send_webhook are gone once
\* asyncio.run has returned or raised.
FrameGone ==
    /\ exc' = NoneV
    /\ domain_config' = NoneV
    /\ attempt' = 0
    /\ wait_time' = 0
    /\ posts' = 0
    /\ sleeps' = 0
    /\ last_response' = NoneV
    /\ payload_json' = NoneV
    /\ headers' = NoneV
    /\ requests' = {}
    /\ ses_data' = NoneV
    /\ metadata' = NoneV
    /\ rcpt_i' = 0
    /\ email_content' = NoneV
    /\ gets' = 0
    /\ location' = NoneV
    /\ body_response' = NoneV

\* lambda_handler is invoked with an event of n records.  The loop reads
\* one record at a time and never looks ahead, so the model draws each
\* record when the loop reaches it.
HandlerInvoke ==
    /\ pc = "idle"
    /\ \E n \in 0..MaxBatch : remaining' = n
    /\ log' = <<>>
    /\ response' = NoneV
    /\ record' = NoneV
    /\ pc' = "records"
    /\ UNCHANGED <<mgr_vars, world_vars, last_call, exc, send_vars, proc_vars>>

\* Mutant: no record counts as an SES record.
IsSesRecordNever(rec) == FALSE

\* record.get('eventSource') == 'aws:ses'
IsSesRecord(rec) == Get(rec, "eventSource", "") = "aws:ses"

\* The next record is not an SES record: nothing is done with it.
HandlerSkipRecord ==
    /\ pc = "records"
    /\ remaining > 0
    /\ \E rec \in RecordSet :
        /\ ~IsSesRecord(rec)
        /\ record' = rec
        /\ log' = Append(log, "ignored")
    /\ remaining' = remaining - 1
    /\ UNCHANGED <<mgr_vars, world_vars, last_call, ctl_vars, send_vars, response, proc_vars>>

\* The next record is an SES record: asyncio.run(process_ses_email(...)).
HandlerStartRecord ==
    /\ pc = "records"
    /\ remaining > 0
    /\ \E rec \in RecordSet :
        /\ IsSesRecord(rec)
        /\ record' = rec
        /\ ses_data' = rec.ses
    /\ remaining' = remaining - 1
    /\ pc' = "extract"
    /\ UNCHANGED <<mgr_vars, world_vars, last_call, exc, send_vars, log, response,
                   metadata, rcpt_i, email_content, gets, location, body_response>>

\* metadata = extract_email_metadata(ses_data, correlation_id)
ProcessExtract ==
    /\ pc = "extract"
    /\ LET r == ExtractEmailMetadata(ses_data, "correlation-1")
       IN  IF r.kind = "return"
           THEN /\ metadata' = r.result
                /\ rcpt_i' = 1
                /\ pc' = "is_allowed"
                /\ exc' = exc
           ELSE /\ exc' = r.result
                /\ pc' = "proc_except"
                /\ UNCHANGED <<metadata, rcpt_i>>
    /\ UNCHANGED <<mgr_vars, world_vars, last_call, send_vars, handler_vars,
                   ses_data, email_content, gets, location, body_response>>

\* Mutant: a route that rejects the sender ends the walk.
AfterFiltersHardReject(passes) == IF passes THEN "return" ELSE "reject"

\* What is_email_allowed does with the verdict of _passes_filters on a
\* recipient's route: return the route, or go on to the next recipient.
AfterFilters(passes) == IF passes THEN "return" ELSE "continue"

\* Mutant: a recipient is looked up among the rules that accept the
\* sender, so a later matching rule stands in for a rejecting one.
IsAllowedRecipientAnyRule ==
    /\ pc = "is_allowed"
    /\ rcpt_i <= Len(metadata.to_addresses)
    /\ LET c == GetConfig(_config_cache, _cache_timestamp, _global_settings,
                          s3_config, environ, now)
           Accepts(item) ==
               PassesFilters(metadata.from_address,
                             [filters |-> Get(item.rule, "filters", EmptyDict)])
           accepting == IF "domains" \in DOMAIN c.cache
                        THEN [c.cache EXCEPT !.domains = SelectSeq(@, Accepts)]
                        ELSE c.cache
           r == GetDomainConfigForEmail(accepting, c.gs, metadata.to_addresses[rcpt_i])
       IN  /\ _config_cache' = c.cache
           /\ _cache_timestamp' = c.ts
           /\ _global_settings' = c.gs
           /\ CASE r.kind = "raise" ->
                    /\ exc' = r.result
                    /\ pc' = "allowed_raised"
                    /\ UNCHANGED <<domain_config, rcpt_i>>
                [] r.kind = "route" ->
                    /\ domain_config' = r.result
                    /\ pc' = "allowed_returned"
                    /\ UNCHANGED <<exc, rcpt_i>>
                [] OTHER ->
                    /\ rcpt_i' = rcpt_i + 1
                    /\ UNCHANGED <<pc, exc, domain_config>>
    /\ UNCHANGED <<world_vars, last_call, attempt, wait_time, posts, sleeps, last_response,
                   payload_json, headers, requests,
                   handler_vars, ses_data, metadata, email_content, gets, location, body_response>>

\* One iteration of is_email_allowed's loop over metadata.to_addresses:
\* get_domain_config_for_email (with its get_config) and _passes_filters.
IsAllowedRecipient ==
    /\ pc = "is_allowed"
    /\ rcpt_i <= Len(metadata.to_addresses)
    /\ LET c == GetConfig(_config_cache, _cache_timestamp, _global_settings,
                          s3_config, environ, now)
           r == GetDomainConfigForEmail(c.cache, c.gs, metadata.to_addresses[rcpt_i])
           step == IF r.kind = "raise" THEN "raise"
                   ELSE IF r.kind = "none" THEN "continue"
                   ELSE AfterFilters(PassesFilters(metadata.from_address, r.result))
       IN  /\ _config_cache' = r.config
           /\ _cache_timestamp' = c.ts
           /\ _global_settings' = c.gs
           /\ CASE step = "raise" ->
                    /\ exc' = r.result
                    /\ pc' = "allowed_raised"
                    /\ UNCHANGED <<domain_config, rcpt_i>>
                [] step = "return" ->
                    /\ domain_config' = r.result
                    /\ pc' = "allowed_returned"
                    /\ UNCHANGED <<exc, rcpt_i>>
                [] step = "continue" ->
                    /\ rcpt_i' = rcpt_i + 1
                    /\ UNCHANGED <<pc, exc, domain_config>>
                [] OTHER ->
                    /\ domain_config' = NoneV
                    /\ pc' = "allowed_returned"
                    /\ UNCHANGED <<exc, rcpt_i>>
    /\ UNCHANGED <<world_vars, last_call, attempt, wait_time, posts, sleeps, last_response,
                   payload_json, headers, requests,
                   handler_vars, ses_data, metadata, email_content, gets, location, body_response>>

\* is_email_allowed's loop is over: it returns None.
IsAllowedNone ==
    /\ pc = "is_allowed"
    /\ rcpt_i > Len(metadata.to_addresses)
    /\ domain_config' = NoneV
    /\ pc' = "allowed_returned"
    /\ UNCHANGED <<mgr_vars, world_vars, last_call, exc, attempt, wait_time, posts, sleeps,
                   last_response, payload_json, headers, requests, handler_vars, proc_vars>>

\* process_ses_email has is_email_allowed's answer: return at once when
\* it is None, else go on to the body.
ProcessAfterAllowed ==
    /\ pc = "allowed_returned"
    /\ LET after == AfterAllowed(domain_config)
       IN  /\ pc' = CASE after = "return" -> "proc_returned"
                       [] after = "content" -> "content"
                       [] OTHER -> "proc_raised"
           /\ exc' = IF after \in {"return", "content"} THEN exc
                      ELSE [type |-> "EmailProcessingError", cause |-> "not allowed"]
    /\ UNCHANGED <<mgr_vars, world_vars, last_call, send_vars, handler_vars, proc_vars>>

\* email_content = await get_email_content(ses_data, correlation_id,
\* max_size_mb); then send_webhook is entered.
ProcessContent ==
    /\ pc = "content"
    /\ \E body \in IF BodyLocation(ses_data, environ).kind = "location"
                   THEN BodyOutcomes ELSE {NoneV} :
        LET r == GetEmailContentCall(ses_data, environ,
                                     Get(domain_config.filters, "max_size_mb", 10), body)
        IN  /\ IF r.asked # NoneV
               THEN /\ gets' = gets + 1
                    /\ location' = r.asked
                    /\ body_response' = body
               ELSE UNCHANGED <<gets, location, body_response>>
            /\ IF r.kind = "return"
               THEN /\ email_content' = r.result
                    /\ pc' = "send_enter"
                    /\ UNCHANGED exc
               ELSE /\ exc' = r.result
                    /\ pc' = "proc_except"
                    /\ UNCHANGED email_content
    /\ UNCHANGED <<mgr_vars, world_vars, last_call, send_vars, handler_vars,
                   ses_data, metadata, rcpt_i>>

\* Mutant: after a delivery the walk over the recipients goes on.
ProcessReturnNextRecipient ==
    /\ pc = "send_returned"
    /\ pc' = "is_allowed"
    /\ rcpt_i' = rcpt_i + 1
    /\ UNCHANGED <<mgr_vars, world_vars, last_call, exc, send_vars, handler_vars,
                   ses_data, metadata, email_content, gets, location, body_response>>

\* send_webhook returned: so does process_ses_email.
ProcessReturn ==
    /\ pc = "send_returned"
    /\ pc' = "proc_returned"
    /\ UNCHANGED <<mgr_vars, world_vars, last_call, exc, send_vars, handler_vars, proc_vars>>

\* An exception reached the end of process_ses_email's try block.
ProcessCatch ==
    /\ pc \in {"proc_except", "allowed_raised", "send_raised"}
    /\ exc' = IF ProcessCatches(exc.type)
              THEN [type |-> "EmailProcessingError", cause |-> exc.type]
              ELSE exc
    /\ pc' = "proc_raised"
    /\ UNCHANGED <<mgr_vars, world_vars, last_call, send_vars, handler_vars, proc_vars>>

\* asyncio.run returned: on to the next record.
HandlerRecordDone ==
    /\ pc = "proc_returned"
    /\ log' = Append(log, IF domain_config = NoneV THEN "dropped" ELSE "delivered")
    /\ pc' = "records"
    /\ FrameGone
    /\ record' = NoneV
    /\ UNCHANGED <<mgr_vars, world_vars, last_call, remaining, response>>

\* The loop is over: return statusCode 200.
HandlerReturnOk ==
    /\ pc = "records"
    /\ remaining = 0
    /\ response' = [outcome |-> "returned", statusCode |-> 200]
    /\ record' = NoneV
    /\ pc' = "idle"
    /\ UNCHANGED <<mgr_vars, world_vars, last_call, exc, send_vars, remaining, log, proc_vars>>

\* Mutant: the handler notes the failure and goes on with the next record.
HandlerCatchContinue ==
    /\ pc = "proc_raised"
    /\ log' = Append(log, "failed")
    /\ pc' = "records"
    /\ FrameGone
    /\ record' = NoneV
    /\ UNCHANGED <<mgr_vars, world_vars, last_call, remaining, response>>

\* lambda_handler's "except Exception": log, return statusCode 500.
HandlerCatch ==
    /\ pc = "proc_raised"
    /\ log' = Append(log, "failed")
    /\ response' = [outcome |-> "returned", statusCode |-> 500, error |-> exc.type,
                    cause |-> Get(exc, "cause", "")]
    /\ pc' = "idle"
    /\ FrameGone
    /\ record' = NoneV
    /\ UNCHANGED <<mgr_vars, world_vars, last_call, remaining>>

\* The endpoint answers 200 or 500, or the POST times out.
DeployedOutcomes ==
    {[kind |-> "status", code |-> 200], [kind |-> "status", code |-> 500],
     [kind |-> "TimeoutException"]}

SendAttemptDeployed == SendAttemptWith(DeployedOutcomes)

\* os.environ of a process whose module loaded: Config._validate demands
\* TARGET_WEBHOOK_URL and S3_BUCKET.
Init ==
    /\ InitManager
    /\ now = 0
    /\ s3_config \in StoreStates
    /\ environ \in Envs \ {EnvNoUrl}
    /\ last_call = NoneV
    /\ InitIdle

Next ==
    \/ Tick
    \/ StoreChange
    \/ HandlerInvoke
    \/ HandlerSkipRecord
    \/ HandlerStartRecord
    \/ ProcessExtract
    \/ IsAllowedRecipient
    \/ IsAllowedNone
    \/ ProcessAfterAllowed
    \/ ProcessContent
    \/ SendPrepare
    \/ SendAttemptDeployed
    \/ SendSleep
    \/ SendExhausted
    \/ ProcessReturn
    \/ ProcessCatch
    \/ HandlerRecordDone
    \/ HandlerReturnOk
    \/ HandlerCatch

\* The deployed function: invocation after invocation in one process.
Spec == Init /\ [][Next]_vars

\* ------------------------------- the manager and its helpers, called directly

\* An EmailMetadata as the unit tests build it.
Metadata(from_address, to_addresses) ==
    [message_id |-> "test-message-id", timestamp |-> "2024-01-15T10:00:00Z",
     from_address |-> from_address, to_addresses |-> to_addresses,
     subject |-> "Test Subject", correlation_id |-> "test-correlation-id"]

\* The messages is_email_allowed is called with: those of
\* test_email_filtering and of the end-to-end scenario, every sender to a@x,
\* and messages to several, to unrouted and to no recipients.
DirectMessages ==
    {Metadata(AnyoneAtSpam, <<TestAtExample>>)}
    \cup {Metadata(f, <<ContactAtCompany>>) :
            f \in {UserAtTrusted, UserAtUntrusted, UserAtNormal, NoreplyAtAnywhere,
                    AnyoneAtSpam}}
    \cup {Metadata(f, <<Addr("a", "x")>>) : f \in Senders}
    \cup {Metadata(Addr("b", "x"), <<Addr("a", "y"), Addr("a", "x")>>),
          Metadata(Addr("a", "y"), <<Addr("c", "z"), Addr("a", "x")>>),
          Metadata(Addr("b", "y"), <<Addr("a", "x"), Addr("a", "y")>>),
          Metadata(Addr("a", "y"), <<Addr("b", "x")>>),
          Metadata(Addr("a", "y"), <<>>)}

DirectStores ==
    {S3Object(d) : d \in {DocTwo, DocReordered, TestConfig} \cup FilterDocs \cup MergeDocs}

\* A direct call of is_email_allowed(metadata) begins.
CallIsEmailAllowed ==
    /\ pc = "idle"
    /\ \E m \in DirectMessages : metadata' = m
    /\ rcpt_i' = 1
    /\ pc' = "is_allowed"
    /\ last_call' = [op |-> "is_email_allowed", kind |-> "running"]
    /\ UNCHANGED <<mgr_vars, world_vars, exc, send_vars, handler_vars,
                   ses_data, email_content, gets, location, body_response>>

\* The direct call is over: what it returned or raised, and at which
\* recipient the loop stood.
DirectReturn ==
    /\ pc \in {"allowed_returned", "allowed_raised"}
    /\ last_call' = [op |-> "is_email_allowed",
                     kind |-> IF pc = "allowed_returned" THEN "return" ELSE "raise",
                     metadata |-> metadata,
                     result |-> IF pc = "allowed_returned" THEN domain_config ELSE exc,
                     at |-> rcpt_i]
    /\ pc' = "idle"
    /\ FrameGone
    /\ UNCHANGED <<mgr_vars, world_vars, handler_vars>>

InitDirect ==
    /\ InitManager
    /\ now = 0
    /\ s3_config \in DirectStores
    /\ environ = EnvMinimal
    /\ last_call = NoneV
    /\ InitIdle

NextDirect ==
    \/ CallGetDomainConfigForEmail
    \/ CallIsEmailAllowed
    \/ IsAllowedRecipient
    \/ IsAllowedNone
    \/ DirectReturn

\* The manager called as test_email_filtering and
\* test_get_domain_config_for_email call it: one remote document, no time
\* passing.
SpecDirect == InitDirect /\ [][NextDirect]_vars

\* Addresses and patterns for _matches_pattern.
MatchAddresses ==
    {Addr("a", "x"), Addr("A", "x"), Addr("a", "X"), Addr("b", "x"), <<"a", "b", "@", "x">>,
     <<"@", "x">>, <<"a", "x">>, <<"a", "@", "x", "y">>, <<"a", "@", "[", "x", "]">>,
     <<"a", "@", "[", "x">>, <<>>,
     <<"U", "S", "E", "R", "@", "E", "x", "a", "m", "p", "l", "e", ".", "c", "o", "m">>}

MatchPatterns ==
    {Addr("*", "x"), Addr("*", "X"), Addr("?", "x"), Addr("a", "*"), Addr("A", "X"),
     Addr("a", "x"), Star, <<"@", "x">>, <<"?", "?", "@", "x">>, Addr("*", "*"),
     <<"a", "*", "@", "x">>, <<"a", "@", "?">>,
     <<"a", "@", "[", "x", "]">>, <<"a", "@", "[", "!", "x", "]">>, <<"a", "@", "[", "x">>,
     <<>>,
     <<"*", "@", "e", "x", "a", "m", "p", "l", "e", ".", "c", "o", "m">>}

\* A direct call of _matches_pattern the way each of its two callers
\* makes it.
CallMatchesPattern ==
    /\ pc = "idle"
    /\ \E a \in MatchAddresses, p \in MatchPatterns :
        last_call' = [op |-> "_matches_pattern", email |-> a, pattern |-> p,
                      recipient |-> RecipientMatches(a, p),
                      sender |-> SenderMatches(Lower(a), p)]
    /\ UNCHANGED <<mgr_vars, world_vars, ctl_vars, send_vars, handler_vars, proc_vars>>

\* A direct call of _passes_filters(metadata, config).
CallPassesFilters ==
    /\ pc = "idle"
    /\ \E from_address \in Senders, f \in FilterBlocks :
        last_call' = [op |-> "_passes_filters", sender |-> from_address, filters |-> f,
                      result |-> PassesFilters(from_address,
                                    [webhook_url |-> "https://x/hook", webhook_secret |-> "",
                                     patterns |-> <<Star>>, filters |-> f,
                                     payload_format |-> "standard",
                                     custom_headers |-> EmptyDict,
                                     retry_config |-> EmptyDict])]
    /\ UNCHANGED <<mgr_vars, world_vars, ctl_vars, send_vars, handler_vars, proc_vars>>

\* A direct call of get_email_content(ses_data, correlation_id, max_size_mb).
\* The receipts it is called with: a single S3 action; a list of a Lambda
\* action and two S3 actions; a list of Lambda actions only; a Lambda
\* action; no 'action'; an S3 action without its objectKey.  What storage
\* answers: an exception, an object that does not parse, and objects
\* around the ceilings of 5 and 10 MiB.
CallGetEmailContent ==
    LET receipts ==
            {Receipt,
             [action |-> ListOf(<<LambdaAction, S3Action("first-bucket", "inbox/first"),
                                  S3Action("second-bucket", "inbox/second")>>)],
             [action |-> ListOf(<<LambdaAction>>)],
             ReceiptLambda,
             [spamVerdict |-> [status |-> "PASS"]],
             [action |-> [type |-> "s3", bucketName |-> "mail-bucket"]]}
        records ==
            {[mail |-> [messageId |-> id, timestamp |-> "2024-01-15T10:00:00Z",
                        source |-> Addr("a", "y"), destination |-> <<Addr("a", "x")>>],
              receipt |-> receipt] :
                id \in {"msg-1", "msg-2"}, receipt \in receipts}
        bodies ==
            {[kind |-> "error", type |-> "ClientError"],
             [kind |-> "object", length |-> 2048, raw |-> Garbage]}
            \cup {[kind |-> "object", length |-> mb * 1024 * 1024 + over,
                   raw |-> Rfc822(Leaf("text/plain", <<>>, "hello"))] :
                    mb \in {5, 10}, over \in {0, 1}}
    IN  /\ pc = "idle"
        /\ \E ses \in records, max_size_mb \in {5, 10} :
            \E body \in IF BodyLocation(ses, environ).kind = "location"
                        THEN bodies ELSE {NoneV} :
                LET r == GetEmailContentCall(ses, environ, max_size_mb, body)
                IN  last_call' = [op |-> "get_email_content", ses_data |-> ses,
                                  max_size_mb |-> max_size_mb, kind |-> r.kind,
                                  result |-> r.result, asked |-> r.asked,
                                  answer |-> IF r.asked = NoneV THEN NoneV ELSE body]
        /\ UNCHANGED <<mgr_vars, world_vars, ctl_vars, send_vars, handler_vars, proc_vars>>

\* The parts of the messages parse_email_content is called with: two
\* text/plain and two text/html bodies, a text/plain attachment, a
\* text/html part whose file name holds the word, an image, an empty
\* text/plain part.
ParseParts ==
    {Leaf("text/plain", <<>>, "p1"), Leaf("text/plain", <<"inline">>, "p2"),
     Leaf("text/html", <<>>, "h1"), Leaf("text/html", <<>>, "h2"),
     Leaf("text/plain", <<"attachment", "; filename=\"a.txt\"">>, "a1"),
     Leaf("text/html", <<"inline; filename=\"", "attachment", ".html\"">>, "a2"),
     Leaf("image/png", <<>>, "png"),
     Leaf("text/plain", <<>>, "")}

\* Single-part messages, multiparts of up to MaxParts parts, and
\* multiparts that hold a multipart.
ParseMessages ==
    {Leaf(t, <<>>, b) : t \in {"text/plain", "text/html", "text/csv"}, b \in {"", "body"}}
    \cup {Leaf("text/plain", <<"attachment">>, "body")}
    \cup {Multipart(<<>>, parts) : parts \in UNION {[1..n -> ParseParts] : n \in 0..MaxParts}}
    \cup {Multipart(<<>>, <<Multipart(<<>>, <<a, b>>), c>>) :
            a \in {Leaf("text/plain", <<>>, "p1")},
            b \in {Leaf("text/html", <<>>, "h1")},
            c \in ParseParts}
    \cup {Multipart(<<>>, <<a, Multipart(<<"attachment">>, <<b>>)>>) :
            a, b \in {Leaf("text/plain", <<>>, "p1"), Leaf("text/plain", <<"inline">>, "p2")}}

\* A direct call of parse_email_content(raw_email, correlation_id).
CallParseEmailContent ==
    /\ pc = "idle"
    /\ \E raw_email \in {Rfc822(m) : m \in ParseMessages} \cup {Garbage} :
        last_call' = [op |-> "parse_email_content", raw_email |-> raw_email,
                      result |-> ParseEmailContent(raw_email)]
    /\ UNCHANGED <<mgr_vars, world_vars, ctl_vars, send_vars, handler_vars, proc_vars>>

\* Mutant: the receiver compares the digest wherever it stands.
VerifySignatureAnyPrefix(payload, signature_header, secret) ==
    /\ signature_header # <<>>
    /\ signature_header[Len(signature_header)] = Hmac(secret, payload)

\* WebhookHandler.verify_signature of the test receiver.  A header value
\* is a sequence of pieces whose first piece is all of 'sha256=' whenever
\* the value starts with it; '' is <<>>.
VerifySignature(payload, signature_header, secret) ==
    IF ~(signature_header # <<>> /\ signature_header[1] = "sha256=") THEN FALSE
    ELSE LET received_signature == Tail(signature_header)
             expected_signature == Hmac(secret, payload)
         IN  received_signature = <<expected_signature>>

\* A POST of send_webhook arrives at the test receiver: do_POST reads the
\* header ('' when absent) and calls verify_signature with the body
\* received and its own secret.  What reaches the receiver in
\* X-Webhook-Signature for the header value sent: the value itself, the
\* value without its 'sha256=' prefix, the value under another prefix.
CallVerifySignature ==
    LET secrets == {"secret-x", "secret-y"}
        bodies ==
            {JsonDumps(PayloadToDict(SendMetadata, content)) :
                content \in {[text |-> "hello", html |-> ""], [text |-> "hellp", html |-> ""]}}
        Arrivals(value) ==
            {value}
            \cup IF value # <<>> /\ value[1] = "sha256="
                 THEN {<<"">> \o Tail(value), <<"sha1=">> \o Tail(value)}
                 ELSE {}
    IN  /\ pc = "idle"
        /\ \E sender_secret \in secrets \cup {""}, sent_body \in bodies,
              secret \in secrets, post_data \in bodies :
            LET sent == SendHeaders(SendRoute("https://x/hook", sender_secret, EmptyDict,
                                              EmptyDict),
                                    sent_body, "correlation-1")
            IN  \E signature_header \in Arrivals(Get(sent, "X-Webhook-Signature", <<>>)) :
                    last_call' = [op |-> "verify_signature",
                                  sender_secret |-> sender_secret, sent_body |-> sent_body,
                                  secret |-> secret, payload |-> post_data,
                                  signature_header |-> signature_header,
                                  result |-> VerifySignature(post_data, signature_header,
                                                             secret)]
        /\ UNCHANGED <<mgr_vars, world_vars, ctl_vars, send_vars, handler_vars, proc_vars>>

InitPure ==
    /\ InitManager
    /\ now = 0
    /\ s3_config = NoSuchKey
    /\ environ = EnvMinimal
    /\ last_call = NoneV
    /\ InitIdle

NextPure ==
    \/ CallMatchesPattern
    \/ CallPassesFilters
    \/ CallGetEmailContent
    \/ CallParseEmailContent
    \/ CallVerifySignature

\* The matching and filtering helpers applied to every input of the
\* bounded sets.
SpecPure == InitPure /\ [][NextPure]_vars

\* ------------------------------------------------------ claims: delivery

\* The last POST came back with status 200, 201 or 202.
Delivered ==
    /\ last_response # NoneV
    /\ last_response.kind = "status"
    /\ last_response.code \in {200, 201, 202}

\* C1: with max_retries = N >= 1 and every attempt failing (any status
\* outside 200/201/202, a timeout, a transport error, any other exception),
\* nothing is raised before the N-th POST has failed, and what is raised
\* then is WebhookDeliveryError with the webhook URL and the count N, after
\* exactly N POSTs.
C1_ExhaustionAfterExactlyN ==
    LET N == MaxRetriesOf(domain_config)
    IN  (pc \in {"send", "sleep", "send_raised"} /\ N >= 1) =>
            /\ ~Delivered
            /\ (exc # NoneV) <=> (pc = "send_raised")
            /\ (pc = "send_raised") =>
                  /\ posts = N
                  /\ exc = [type |-> "WebhookDeliveryError",
                            url |-> domain_config.webhook_url,
                            attempts |-> N]
            /\ (pc # "send_raised") => posts <= N

\* C1 witness: three attempts failed in three different ways, the last by
\* an exception that is neither a timeout nor a transport error.
C1_Witness ==
    /\ pc = "send_raised"
    /\ MaxRetriesOf(domain_config) = 3
    /\ posts = 3
    /\ last_response.kind = "Exception"
    /\ exc.type = "WebhookDeliveryError"

\* C2: as soon as a POST comes back with 200, 201 or 202 the call returns:
\* that POST was number k = attempt + 1 <= max_retries, k - 1 sleeps came
\* before it, nothing is raised, and no step changes the POSTs, the sleeps
\* or the outcome afterwards.
C2_SuccessReturnsAtOnce ==
    /\ [](Delivered <=> (pc = "send_returned"))
    /\ [](pc = "send_returned" =>
            /\ posts = attempt + 1
            /\ posts <= MaxRetriesOf(domain_config)
            /\ sleeps = posts - 1
            /\ exc = NoneV)
    /\ [][pc = "send_returned" =>
            /\ pc' = "send_returned"
            /\ posts' = posts
            /\ sleeps' = sleeps
            /\ exc' = exc]_vars

\* C2 witness: the second of three attempts came back with 202.
C2_Witness ==
    /\ pc = "send_returned"
    /\ MaxRetriesOf(domain_config) = 3
    /\ posts = 2
    /\ sleeps = 1
    /\ last_response.code = 202

\* C3: every sleep follows a failed attempt that is not the last one (the
\* s-th sleep follows the attempt with index s - 1, so N failed attempts
\* make N - 1 sleeps), and the wait after attempt a is min(2^a + j, 60) s
\* for a jitter 0 <= j < 1: at least min(2^a, 60) and at most 60.
C3_BackoffBetweenAttempts ==
    LET N == MaxRetriesOf(domain_config)
        a == sleeps - 1
    IN  /\ sleeps <= (IF N >= 1 THEN N - 1 ELSE 0)
        /\ (pc = "send_raised" /\ N >= 1) => sleeps = N - 1
        /\ pc \in {"send", "send_returned", "send_raised"} => sleeps = attempt
                                                                  \/ sleeps = attempt - 1
        /\ sleeps >= 1 =>
              /\ wait_time <= MaxWait * JitterDen
              /\ wait_time >= Min(2^a, MaxWait) * JitterDen
              /\ \E j \in 0..(JitterDen - 1) :
                    wait_time = Min(2^a * JitterDen + j, MaxWait * JitterDen)

\* C3 witness: the wait after the attempt with index 6 (2^6 = 64) is
\* capped at 60 s.
C3_Witness ==
    /\ sleeps = 7
    /\ wait_time = MaxWait * JitterDen
    /\ pc = "send"

SendDone == pc \in {"send_returned", "send_raised"}

\* max_retries, or 0 when it is negative.
AttemptBudget ==
    IF MaxRetriesOf(domain_config) >= 0 THEN MaxRetriesOf(domain_config) ELSE 0

\* C4: every call ends, in a return or in WebhookDeliveryError, after at
\* most max_retries POSTs and at most max_retries - 1 waits of at most 60 s
\* each, and once it has ended the loop is not entered again.
C4_DeliveryTerminates ==
    /\ <>SendDone
    /\ [](posts <= AttemptBudget)
    /\ [](sleeps <= (IF AttemptBudget >= 1 THEN AttemptBudget - 1 ELSE 0))
    /\ [](wait_time <= MaxWait * JitterDen)
    /\ [](pc = "send_raised" => exc.type = "WebhookDeliveryError")
    /\ [][SendDone => UNCHANGED <<pc, posts, sleeps, attempt>>]_vars

\* C4 witness: a call that ended in WebhookDeliveryError after the largest
\* number of attempts and waits.
C4_Witness ==
    /\ pc = "send_raised"
    /\ posts = MaxRetriesBound
    /\ sleeps = MaxRetriesBound - 1

\* ------------------------------------------------- claims: no attempts

\* The route's retry_config says max_retries <= 0.
NoAttemptsAllowed == Get(domain_config.retry_config, "max_retries", 3) <= 0

\* C29: with max_retries <= 0 send_webhook POSTs nothing and sleeps never:
\* its first step after the headers are built raises WebhookDeliveryError
\* with the webhook URL and the configured count, so the message is
\* reported undeliverable although the endpoint was never contacted.
C29_NoAttemptsWhenRetriesNotPositive ==
    NoAttemptsAllowed =>
        /\ pc \in {"send_enter", "send", "send_raised"}
        /\ posts = 0
        /\ sleeps = 0
        /\ requests = {}
        /\ last_response = NoneV
        /\ (exc # NoneV) <=> (pc = "send_raised")
        /\ (pc = "send_raised") =>
              exc = [type |-> "WebhookDeliveryError",
                     url |-> domain_config.webhook_url,
                     attempts |-> domain_config.retry_config.max_retries]

\* C29 witness: a delivery with max_retries 0 has ended in
\* WebhookDeliveryError without a POST.
C29_Witness ==
    /\ pc = "send_raised"
    /\ Get(domain_config.retry_config, "max_retries", 3) = 0
    /\ posts = 0
    /\ exc.type = "WebhookDeliveryError"

\* ------------------------------------------------------ claims: pipeline

\* C5: whatever is raised while process_ses_email handles a record (the
\* KeyError of metadata extraction or of the route lookup, the
\* WebhookDeliveryError of the delivery) leaves process_ses_email as
\* EmailProcessingError; an exception of any other type is still inside it.
C5_OnlyEmailProcessingErrorLeaves ==
    /\ (pc = "proc_raised") =>
          /\ exc # NoneV
          /\ exc.type = "EmailProcessingError"
          /\ exc.cause \in {"KeyError", "WebhookDeliveryError"}
    /\ (exc # NoneV /\ exc.type # "EmailProcessingError") =>
          pc \in {"proc_except", "allowed_raised", "send_raised"}

\* C5 witness: a KeyError of the route lookup (metadata was extracted, no
\* route was chosen) has left as EmailProcessingError.
C5_Witness ==
    /\ pc = "proc_raised"
    /\ exc.type = "EmailProcessingError"
    /\ exc.cause = "KeyError"
    /\ metadata # NoneV

\* C6: an invocation in which a delivery exhausted its retries does not
\* complete normally: lambda_handler lets the failure out to the framework.
C6_DeliveryFailureIsHardFailure ==
    (pc = "idle" /\ response # NoneV
        /\ Get(response, "cause", "") = "WebhookDeliveryError")
    => response.outcome = "raised"

\* C7: a record for which is_email_allowed returned None is dropped: the
\* raw body was not requested, nothing was POSTed, process_ses_email
\* returned without an exception; and the handler answers 500 exactly when
\* the last record it reached failed, so a dropped record never does.
C7_RejectedRecordIsDropped ==
    /\ (pc = "proc_returned" /\ domain_config = NoneV) =>
          /\ gets = 0
          /\ posts = 0
          /\ exc = NoneV
    /\ (pc = "proc_raised" /\ metadata # NoneV /\ domain_config = NoneV) =>
          exc.cause = "KeyError"
    /\ \A i \in 1..Len(log) : log[i] = "failed" => i = Len(log)
    /\ (pc = "idle" /\ response # NoneV) =>
          ((response.statusCode = 500) <=> (Len(log) > 0 /\ log[Len(log)] = "failed"))
    /\ (pc = "records" /\ Len(log) > 0) => log[Len(log)] # "failed"

\* C7 witness: a record is being dropped whose recipient a rule of the
\* cached document matches (the route rejected the sender).
C7_Witness ==
    /\ pc = "proc_returned"
    /\ domain_config = NoneV
    /\ _config_cache # NoneV
    /\ \E i \in 1..Len(metadata.to_addresses) :
          FindRule(Get(_config_cache, "domains", <<>>), metadata.to_addresses[i], 1) # 0

\* ------------------------------------------------------ claims: filtering

\* The recipients of a message, by position, whose route in the cached
\* document accepts the sender.
PassingRecipients(md) ==
    {i \in 1..Len(md.to_addresses) :
        LET look == GetDomainConfigForEmail(_config_cache, _global_settings,
                                            md.to_addresses[i])
        IN  look.kind = "route" /\ PassesFilters(md.from_address, look.result)}

\* A direct call of is_email_allowed has returned.
AllowedReturned ==
    /\ last_call # NoneV
    /\ last_call.op = "is_email_allowed"
    /\ last_call.kind = "return"

\* C11: is_email_allowed returns the route of the first recipient, in the
\* given order, whose route accepts the sender, having skipped the
\* recipients before it that have no route or whose route rejects the
\* sender; it returns None only when no recipient has such a route.
C11_FirstPassingRecipientWins ==
    AllowedReturned =>
        LET md == last_call.metadata
            passing == PassingRecipients(md)
        IN  IF passing = {}
            THEN last_call.result = NoneV
            ELSE LET first == CHOOSE i \in passing : \A j \in passing : i <= j
                 IN  /\ last_call.at = first
                     /\ last_call.result =
                          GetDomainConfigForEmail(_config_cache, _global_settings,
                                                  md.to_addresses[first]).result

\* C11 witness: the second recipient's route was returned after the first
\* recipient's route rejected the sender.
C11_Witness ==
    /\ AllowedReturned
    /\ last_call.result # NoneV
    /\ last_call.at = 2
    /\ LET look == GetDomainConfigForEmail(_config_cache, _global_settings,
                                           last_call.metadata.to_addresses[1])
       IN  look.kind = "route" /\ ~PassesFilters(last_call.metadata.from_address, look.result)

\* The text after the last "@" of an address that has one.
DomainAfterLastAt(address) ==
    LET ats == {i \in 1..Len(address) : address[i] = "@"}
        last == CHOOSE i \in ats : \A j \in ats : j <= i
    IN  SubSeq(address, last + 1, Len(address))

\* A block rule of the filter block applies to the sender.
Blocked(sender, filters) ==
    LET blocked_senders == Get(filters, "blocked_senders", <<>>)
        blocked_domains == Get(filters, "blocked_domains", <<>>)
    IN  \/ \E k \in 1..Len(blocked_senders) :
              FnMatch(Lower(sender), Lower(blocked_senders[k]))
        \/ /\ \E i \in 1..Len(sender) : sender[i] = "@"
           /\ \E k \in 1..Len(blocked_domains) :
                 Lower(DomainAfterLastAt(sender)) = Lower(blocked_domains[k])

\* The filter block of the first rule of the cached document that matches
\* the only recipient of the message of the last call (EmptyDict if none).
FiltersOfOnlyRecipient ==
    LET domains == Get(_config_cache, "domains", <<>>)
        i == FindRule(domains, last_call.metadata.to_addresses[1], 1)
    IN  IF i = 0 THEN EmptyDict ELSE Get(domains[i].rule, "filters", EmptyDict)

\* C12: block rules win over allow rules: a single-recipient message whose
\* recipient matches a rule, from a sender that a blocked_senders pattern
\* matches or whose domain is in blocked_domains, gets None from
\* is_email_allowed whatever allowed_senders holds.
C12_BlockedSenderIsRejected ==
    (/\ AllowedReturned
     /\ Len(last_call.metadata.to_addresses) = 1
     /\ Blocked(last_call.metadata.from_address, FiltersOfOnlyRecipient))
    => last_call.result = NoneV

\* C12 witness: a blocked sender was rejected by a rule that matches the
\* recipient and allows every sender.
C12_Witness ==
    /\ AllowedReturned
    /\ Len(last_call.metadata.to_addresses) = 1
    /\ Blocked(last_call.metadata.from_address, FiltersOfOnlyRecipient)
    /\ Get(FiltersOfOnlyRecipient, "allowed_senders", <<>>) = <<Star>>
    /\ last_call.result = NoneV

C14_TrustedSenderIsAllowed ==
    (/\ AllowedReturned
     /\ s3_config = S3Object(TestConfig)
     /\ last_call.metadata.to_addresses = <<ContactAtCompany>>)
    => /\ (last_call.metadata.from_address = UserAtTrusted) =>
             /\ last_call.result # NoneV
             /\ last_call.result.webhook_url = RuleCompanyOrg.webhook_url
             /\ last_call.result.custom_headers = RuleCompanyOrg.custom_headers
       /\ (last_call.metadata.from_address \in {UserAtUntrusted, UserAtNormal}) =>
             last_call.result = NoneV

\* ------------------------------------------------------- claims: matching

\* The positions of pattern that hold one of the characters.
PositionsOf(pattern, characters) == {i \in 1..Len(pattern) : pattern[i] \in characters}

\* What the claim says of one answer of _matches_pattern for an address
\* and a pattern, when the characters of wildcards are the special ones:
\* the answer is the answer for the lower-cased address and pattern; a
\* pattern whose only special character is one "*" matches exactly the
\* addresses that begin with what precedes it and end with what follows
\* it; a pattern whose only special characters are "?" matches exactly the
\* addresses of its length that agree with it elsewhere; a pattern without
\* special characters matches exactly the identical address.
GlobAnswer(answer, address, pattern, wildcards) ==
    LET a == Lower(address)
        p == Lower(pattern)
        special == PositionsOf(p, wildcards)
        stars == PositionsOf(p, {"*"})
    IN  /\ answer = FnMatch(a, p)
        /\ (special = stars /\ Cardinality(stars) = 1) =>
              LET k == CHOOSE i \in stars : TRUE
                  before == SubSeq(p, 1, k - 1)
                  after == SubSeq(p, k + 1, Len(p))
              IN  answer <=> /\ Len(a) >= Len(before) + Len(after)
                             /\ SubSeq(a, 1, Len(before)) = before
                             /\ SubSeq(a, Len(a) - Len(after) + 1, Len(a)) = after
        /\ (special = PositionsOf(p, {"?"})) =>
              (answer <=> /\ Len(a) = Len(p)
                          /\ \A i \in 1..Len(p) : p[i] = "?" \/ a[i] = p[i])
        /\ (special = {}) => (answer <=> a = p)

\* _matches_pattern was called directly.
MatchCalled == last_call # NoneV /\ last_call.op = "_matches_pattern"

LookupReturnedRoute ==
    /\ last_call # NoneV
    /\ last_call.op = "get_domain_config_for_email"
    /\ last_call.kind = "route"

\* The rule of the remote document that the address of the last lookup
\* matches first, as the document states it.
RuleLookedUp ==
    LET domains == s3_config.doc.domains
    IN  domains[FindRule(domains, last_call.email, 1)].rule

\* The rule's own value of a field of a block if the rule states it, else
\* the document's global default if the document states it, else the
\* built-in default.
FieldByField(block, field, default_key, builtin) ==
    LET gs == Get(s3_config.doc, "global_settings", EmptyDict)
    IN  IF block \in DOMAIN RuleLookedUp /\ field \in DOMAIN RuleLookedUp[block]
        THEN RuleLookedUp[block][field]
        ELSE Get(gs, default_key, builtin)

\* C16: in a resolved route each of retry_config.max_retries,
\* retry_config.timeout_seconds and filters.max_size_mb is the rule's own
\* value if the rule sets it, else the document's global default if the
\* document sets it, else 3, 30, 10.
C16_MergeIsFieldByField ==
    LookupReturnedRoute =>
        /\ Get(last_call.result.retry_config, "max_retries", -1)
             = FieldByField("retry_config", "max_retries", "default_max_retries", 3)
        /\ Get(last_call.result.retry_config, "timeout_seconds", -1)
             = FieldByField("retry_config", "timeout_seconds", "default_timeout_seconds", 30)
        /\ Get(last_call.result.filters, "max_size_mb", -1)
             = FieldByField("filters", "max_size_mb", "default_max_size_mb", 10)

\* C16 witness: a rule that sets timeout_seconds only, in a document that
\* sets default_max_retries only, resolved to its own timeout, the
\* document's max_retries and the built-in size limit.
C16_Witness ==
    /\ LookupReturnedRoute
    /\ "retry_config" \in DOMAIN RuleLookedUp
    /\ RuleLookedUp.retry_config = [timeout_seconds |-> 6]
    /\ Get(s3_config.doc, "global_settings", EmptyDict) = [default_max_retries |-> 1]
    /\ last_call.result.retry_config = [max_retries |-> 1, timeout_seconds |-> 6]
    /\ last_call.result.filters.max_size_mb = 10

\* C17: between refreshes the cached document stays equal to the document
\* the last refresh stored (here the one remote document): resolving a
\* route writes nothing into it.
C17_CachedDocumentIsImmutable ==
    (_config_cache # NoneV) => _config_cache = s3_config.doc

\* ------------------------------------------------------- claims: requests

\* The header the signature travels in.
SignatureHeader == "X-Webhook-Signature"

\* C18: every POST of a delivery carries the same body, the payload
\* written once with its keys sorted at every level; the signature header
\* is there exactly when the route's secret is non-empty, and is then
\* "sha256=" followed by the HMAC-SHA256 of exactly that body under the
\* secret, whatever the custom headers hold.
C18_BodyAndSignature ==
    /\ Cardinality(requests) <= 1
    /\ \A r \in requests :
          /\ r.content = JsonDumps(PayloadToDict(metadata, email_content))
          /\ \A i, j \in 1..Len(r.content) :
                i < j => KeyRank(r.content[i][1]) < KeyRank(r.content[j][1])
          /\ (SignatureHeader \in DOMAIN r.headers) <=> (domain_config.webhook_secret # "")
          /\ (domain_config.webhook_secret # "") =>
                r.headers[SignatureHeader]
                  = <<"sha256=", Hmac(domain_config.webhook_secret, r.content)>>

\* C19: every POST carries Content-Type application/json, the fixed
\* User-Agent and the record's correlation id as X-Correlation-ID, together
\* with the route's custom headers, whatever those are named.
C19_FixedHeadersOnEveryPost ==
    \A r \in requests :
        /\ DOMAIN domain_config.custom_headers \subseteq DOMAIN r.headers
        /\ Get(r.headers, "Content-Type", <<>>) = Text("application/json")
        /\ Get(r.headers, "User-Agent", <<>>) = Text(UserAgent)
        /\ Get(r.headers, "X-Correlation-ID", <<>>) = Text(metadata.correlation_id)

\* ---------------------------------------------------------- claims: body

\* The content that stands for a body over the ceiling.
TooLarge == [text |-> "Email too large to process", html |-> ""]

\* C20: a stored body longer than the route's ceiling of max_size_mb MiB
\* becomes the sentinel content and one of exactly the ceiling or less is
\* parsed; the record with the sentinel is not dropped: from the retrieval
\* on it is in delivery, and process_ses_email ends for it only after a
\* successful POST or with the delivery's failure.
C20_OversizedBodyStillDelivered ==
    /\ (body_response # NoneV /\ body_response.kind = "object") =>
          LET ceiling == Get(domain_config.filters, "max_size_mb", 10) * 1024 * 1024
          IN  email_content = IF body_response.length > ceiling
                              THEN TooLarge
                              ELSE ParseEmailContent(body_response.raw)
    /\ (email_content = TooLarge) =>
          /\ pc \in {"send_enter", "send", "sleep", "send_returned", "send_raised",
                      "proc_returned", "proc_raised"}
          /\ (pc = "proc_returned") => (posts >= 1 /\ Delivered)
          /\ (pc = "proc_raised") =>
                /\ exc.cause = "WebhookDeliveryError"
                /\ posts = MaxRetriesOf(domain_config)

\* C20 witness: a record whose body was over the ceiling has been
\* delivered with the sentinel content as its body.
C20_Witness ==
    /\ pc = "proc_returned"
    /\ body_response # NoneV
    /\ body_response.kind = "object"
    /\ body_response.length > Get(domain_config.filters, "max_size_mb", 10) * 1024 * 1024
    /\ \E r \in requests :
          r.content = JsonDumps(PayloadToDict(metadata, TooLarge))
    /\ Delivered

\* ----------------------------------------------------- claims: batches

\* No record is being processed: nothing of process_ses_email or
\* send_webhook is under way.
NoRecordInProgress ==
    /\ pc = "records"
    /\ ses_data = NoneV
    /\ metadata = NoneV
    /\ domain_config = NoneV
    /\ exc = NoneV
    /\ attempt = 0
    /\ posts = 0
    /\ sleeps = 0
    /\ gets = 0

\* C23: lambda_handler takes the records of the batch one by one, the
\* next one only when the processing of the one before (its lookups, its
\* retrieval, its POSTs and waits) is over, and reports on them in batch
\* order; a record of the mail source starts process_ses_email, and a
\* record of any other event source is ignored: taking it changes nothing
\* of the manager, requests no body, POSTs nothing and raises nothing.
C23_RecordsOneAtATime ==
    [][/\ (pc # "idle" /\ remaining' < remaining) =>
            /\ remaining' = remaining - 1
            /\ NoRecordInProgress
            /\ record' # NoneV
            /\ (Get(record', "eventSource", "") = "aws:ses") =>
                  /\ pc' = "extract"
                  /\ ses_data' = record'.ses
                  /\ log' = log
            /\ (Get(record', "eventSource", "") # "aws:ses") =>
                  /\ pc' = "records"
                  /\ log' = Append(log, "ignored")
                  /\ UNCHANGED <<mgr_vars, exc, send_vars, proc_vars, response>>
       /\ (pc \notin {"records", "idle"}) =>
            /\ remaining' = remaining
            /\ record # NoneV
            /\ Get(record, "eventSource", "") = "aws:ses"
            /\ ses_data = record.ses
       /\ (pc # "idle") =>
            \/ log' = log
            \/ /\ Len(log') = Len(log) + 1
               /\ SubSeq(log', 1, Len(log)) = log
      ]_vars

\* C23 witness: the second record of a batch, of another event source,
\* has been ignored after the first one was delivered.
C23_Witness ==
    /\ pc = "records"
    /\ log = <<"delivered", "ignored">>
    /\ record # NoneV
    /\ Get(record, "eventSource", "") = "aws:s3"

\* --------------------------------------------- claims: failed batches

\* lambda_handler has returned the failure response.
FailureReported ==
    /\ pc = "idle"
    /\ response # NoneV
    /\ response.statusCode = 500

\* C33: the exception of a record ends the batch: the handler returns one
\* response of status 500 at once, whatever records are left; what
\* earlier records of the batch came to (delivered, dropped, ignored)
\* stands; it is the only failure of the batch; and after it nothing is
\* looked up, retrieved or POSTed and no record is taken until the next
\* invocation.  A batch whose loop ends has no failed record and is
\* answered with status 200.
C33_FirstFailureEndsBatch ==
    [][/\ (pc = "proc_raised" /\ pc' # pc) =>
            /\ pc' = "idle"
            /\ response' # NoneV
            /\ response'.statusCode = 500
            /\ log' = Append(log, "failed")
            /\ \A i \in 1..Len(log) : log[i] \in {"delivered", "dropped", "ignored"}
            /\ remaining' = remaining
       /\ FailureReported =>
            \/ UNCHANGED <<mgr_vars, send_vars, handler_vars, proc_vars, pc, exc>>
            \/ /\ pc' = "records"
               /\ log' = <<>>
               /\ response' = NoneV
               /\ UNCHANGED <<mgr_vars, send_vars, proc_vars, exc>>
       /\ (pc = "records" /\ pc' = "idle") =>
            /\ remaining = 0
            /\ response' # NoneV
            /\ response'.statusCode = 200
            /\ log' = log
            /\ \A i \in 1..Len(log) : log[i] \in {"delivered", "dropped", "ignored"}
       /\ (response' # response /\ response' # NoneV) =>
            /\ pc' = "idle"
            /\ pc \in {"proc_raised", "records"}
      ]_vars

\* C33 witness: the first record of a batch of two has failed and the
\* failure response is returned with the second record never taken.
C33_Witness ==
    /\ FailureReported
    /\ log = <<"failed">>
    /\ remaining = 1

\* ------------------------------------------- claims: one delivery a record

\* The route in use is the one looked up for the recipient at which
\* is_email_allowed stopped, and it accepts the sender.
RouteIsOfStoppingRecipient ==
    /\ metadata # NoneV
    /\ rcpt_i \in 1..Len(metadata.to_addresses)
    /\ GetDomainConfigForEmail(_config_cache, _global_settings,
                               metadata.to_addresses[rcpt_i]).kind = "route"
    /\ GetDomainConfigForEmail(_config_cache, _global_settings,
                               metadata.to_addresses[rcpt_i]).result = domain_config
    /\ PassesFilters(metadata.from_address, domain_config)

InDelivery == pc \in {"send_enter", "send", "sleep", "send_returned", "send_raised"}

\* C27: for one record send_webhook is entered once, straight after the
\* retrieval that follows is_email_allowed's answer, with the route that
\* is_email_allowed returned; that route stays the record's route until
\* the record is done, every POST of the record goes to its URL, after a
\* POST answered with success no further POST is made for the record, and
\* once the delivery has begun neither is_email_allowed nor the retrieval
\* nor send_webhook is entered again for it.
C27_OneDeliveryPerRecord ==
    [][/\ (pc' = "send_enter") =>
            (pc = "content" /\ posts = 0 /\ requests = {} /\ payload_json = NoneV)
       /\ (pc' = "content") => (pc = "allowed_returned" /\ domain_config' = domain_config)
       /\ (pc' = "allowed_returned" /\ pc # "allowed_returned") => pc = "is_allowed"
       /\ (InDelivery \/ pc \in {"proc_returned", "proc_raised"}) =>
            pc' \notin {"is_allowed", "allowed_returned", "content", "send_enter"}
       /\ (pc = "allowed_returned" /\ domain_config # NoneV) => RouteIsOfStoppingRecipient
       /\ (domain_config # NoneV) =>
            /\ \A r \in requests : r.url = domain_config.webhook_url
            /\ \/ domain_config' = domain_config
               \/ (domain_config' = NoneV /\ pc' \in {"records", "idle"})
       /\ (domain_config # NoneV /\ Delivered) =>
            (posts' = posts \/ pc' \in {"records", "idle"})
      ]_vars

\* C27 witness: a record with two recipients whose routes differ and both
\* accept the sender has been delivered, to the first recipient's URL only.
C27_Witness ==
    /\ pc = "proc_returned"
    /\ Delivered
    /\ rcpt_i = 1
    /\ PassingRecipients(metadata) = {1, 2}
    /\ GetDomainConfigForEmail(_config_cache, _global_settings,
                               metadata.to_addresses[2]).result.webhook_url
          # domain_config.webhook_url
    /\ requests # {}
    /\ \A r \in requests : r.url = domain_config.webhook_url

\* ------------------------------------------------ claims: malformed mail

RequiredFields == {"messageId", "timestamp", "source", "destination"}

\* process_ses_email is past its first step for the record in ses_data.
Extracted == ses_data # NoneV /\ pc # "extract"

\* C22: a record whose mail lacks its message id, timestamp, source or
\* destination fails in the first step of process_ses_email: it never has
\* metadata, is_email_allowed is not entered for it, the raw body is not
\* requested and nothing is POSTed, and it leaves process_ses_email as an
\* EmailProcessingError, which the handler answers with its failure
\* response; a record lacking only the subject does not fail there and has
\* the empty subject.
C22_MissingFieldFailsFast ==
    /\ Extracted =>
          ((metadata = NoneV) <=> ~(RequiredFields \subseteq DOMAIN ses_data.mail))
    /\ (Extracted /\ metadata = NoneV) =>
          /\ pc \in {"proc_except", "proc_raised"}
          /\ rcpt_i = 0
          /\ domain_config = NoneV
          /\ gets = 0
          /\ posts = 0
          /\ requests = {}
          /\ exc # NoneV
          /\ (pc = "proc_except") => exc.type = "KeyError"
          /\ (pc = "proc_raised") =>
                (exc.type = "EmailProcessingError" /\ exc.cause = "KeyError")
    /\ (pc = "idle" /\ response # NoneV /\ Get(response, "error", "") # "") =>
          (response.statusCode = 500 /\ log[Len(log)] = "failed")
    /\ (Extracted /\ metadata # NoneV) =>
          metadata.subject = IF "commonHeaders" \in DOMAIN ses_data.mail
                             THEN ses_data.mail.commonHeaders.subject
                             ELSE ""

\* C22 witness: a record without its timestamp has left process_ses_email
\* as an EmailProcessingError.
C22_Witness ==
    /\ pc = "proc_raised"
    /\ metadata = NoneV
    /\ ses_data # NoneV
    /\ "timestamp" \notin DOMAIN ses_data.mail
    /\ exc.type = "EmailProcessingError"

\* ---------------------------------------------------- claims: signature

VerifyCalled == last_call # NoneV /\ last_call.op = "verify_signature"

\* C26: the X-Webhook-Signature value send_webhook produces with secret S
\* over body B is accepted by verify_signature with S over B, and
\* verify_signature rejects when the body it is given differs from B, when
\* its secret differs from S, and when the header value does not start
\* with 'sha256=' (an absent header included).
C26_SignAndVerifyAgree ==
    VerifyCalled =>
        (last_call.result <=>
            /\ last_call.sender_secret # ""
            /\ last_call.signature_header = <<"sha256=", Hmac(last_call.sender_secret,
                                                              last_call.sent_body)>>
            /\ last_call.secret = last_call.sender_secret
            /\ last_call.payload = last_call.sent_body)

\* C26 witness: a signature made and checked with the same secret over
\* the same body has been accepted.
C26_Witness ==
    /\ VerifyCalled
    /\ last_call.result
    /\ last_call.sender_secret = "secret-y"
    /\ last_call.secret = "secret-y"
    /\ last_call.payload = last_call.sent_body

\* ------------------------------------------------ claims: body location

ContentCalled == last_call # NoneV /\ last_call.op = "get_email_content"

\* The storage actions of a receipt, in order: its action when that is a
\* single storage action, the storage actions among them when it is a list.
StorageActions(receipt) ==
    LET action_data == Get(receipt, "action", EmptyDict)
        IsStorage(action) == Get(action, "type", "") = "s3"
    IN  IF IsList(action_data) THEN SelectSeq(action_data.list, IsStorage)
        ELSE IF IsStorage(action_data) THEN <<action_data>>
        ELSE <<>>

\* C24: get_email_content requests the raw body at the bucket and key of
\* the receipt's first storage action (a storage action naming both); when
\* the receipt has no storage action it requests key emails/<message id>
\* in the bucket of S3_BUCKET, and the content it returns is that of the
\* object found there.
C24_BodyLocation ==
    ContentCalled =>
        LET actions == StorageActions(last_call.ses_data.receipt)
        IN  /\ (actions # <<>>
                    /\ {"bucketName", "objectKey"} \subseteq DOMAIN actions[1]) =>
                  last_call.asked = [Bucket |-> actions[1].bucketName,
                                     Key |-> actions[1].objectKey]
            /\ (actions = <<>>) =>
                  last_call.asked = [Bucket |-> environ.S3_BUCKET,
                                     Key |-> <<"emails/", last_call.ses_data.mail.messageId>>]
            /\ (last_call.asked # NoneV /\ last_call.answer.kind = "object"
                    /\ last_call.answer.length <= last_call.max_size_mb * 1024 * 1024) =>
                  (last_call.kind = "return"
                    /\ last_call.result = ParseEmailContent(last_call.answer.raw))

\* C24 witness: a record whose receipt holds no storage action had its
\* body fetched from emails/msg-2 in the default bucket.
C24_Witness ==
    /\ ContentCalled
    /\ last_call.ses_data.receipt = ReceiptLambda
    /\ last_call.asked = [Bucket |-> "default-bucket", Key |-> <<"emails/", "msg-2">>]
    /\ last_call.result = [text |-> "hello", html |-> ""]

\* -------------------------------------------------- claims: body parsing

ParseCalled == last_call # NoneV /\ last_call.op = "parse_email_content"

\* The body of the first part of the given type, among the parts of a
\* message in walk order that are not flagged as attachment and have a
\* body; "" when there is none.
FirstBodyOfType(msg, content_type) ==
    LET Eligible(part) ==
            /\ ~IsMultipart(part)
            /\ part.payload # ""
            /\ \A i \in 1..Len(part.disposition) : part.disposition[i] # "attachment"
            /\ part.content_type = content_type
        found == SelectSeq(Walk(msg), Eligible)
    IN  IF found = <<>> THEN "" ELSE found[1].payload

\* C25: of a multipart message parse_email_content returns as text the
\* first text/plain part and as HTML the first text/html part in walk
\* order, attachments left out, later parts of the same type not replacing
\* them; of a single-part message the body is the HTML when the type is
\* text/html and the text otherwise.
C25_FirstPartsWin ==
    (ParseCalled /\ last_call.raw_email.kind = "rfc822") =>
        LET msg == last_call.raw_email.msg
        IN  IF IsMultipart(msg)
            THEN /\ last_call.result.text = FirstBodyOfType(msg, "text/plain")
                 /\ last_call.result.html = FirstBodyOfType(msg, "text/html")
            ELSE last_call.result =
                    IF msg.content_type = "text/html"
                    THEN [text |-> "", html |-> msg.payload]
                    ELSE [text |-> msg.payload, html |-> ""]

\* ------------------------------------------------ claims: body recovery

EmptyContent == [text |-> "", html |-> ""]

\* Storage raised on the request for the raw body, or answered with an
\* object within the ceiling that the parser fails on.
BodyFailed ==
    /\ body_response # NoneV
    /\ \/ body_response.kind = "error"
       \/ /\ body_response.kind = "object"
          /\ body_response.raw = Garbage
          /\ body_response.length <= Get(domain_config.filters, "max_size_mb", 10) * 1024 * 1024

\* C21: when the retrieval of the raw body fails or its parsing fails,
\* get_email_content raises nothing and returns empty text and empty HTML,
\* and process_ses_email goes on: the payload is built from the metadata
\* and the empty content and send_webhook is called with it, so the record
\* ends only as every delivered or undeliverable record does.
C21_BodyFailureDoesNotAbort ==
    BodyFailed =>
        /\ email_content = EmptyContent
        /\ pc \in {"send_enter", "send", "sleep", "send_returned", "send_raised",
                    "proc_returned", "proc_raised"}
        /\ (pc # "send_enter") =>
              payload_json = JsonDumps(PayloadToDict(metadata, EmptyContent))
        /\ \A r \in requests : r.content = JsonDumps(PayloadToDict(metadata, EmptyContent))
        /\ (pc = "proc_returned") => (posts >= 1 /\ Delivered)
        /\ (pc = "proc_raised") => exc.cause = "WebhookDeliveryError"

\* C21 witness: storage raised on the request for the raw body and the
\* record was delivered with empty content.
C21_Witness ==
    /\ pc = "proc_returned"
    /\ body_response # NoneV
    /\ body_response.kind = "error"
    /\ Delivered
    /\ \E r \in requests : r.content = JsonDumps(PayloadToDict(metadata, EmptyContent))

\* ------------------------------------------------- claims: configuration

\* C8: a get_config call made while a document is cached and less than
\* 300 s old returns that document, fetches nothing and leaves the cache and
\* its timestamp alone (whatever happened to the remote object meanwhile);
\* a call made with nothing cached, or at age >= 300 s, fetches and replaces
\* both the cached document and the timestamp.
C8_CacheHonouredUntilTtl ==
    (last_call # NoneV /\ last_call.op = "get_config") =>
        LET c == last_call
            fresh == /\ c.pre_cache # NoneV
                     /\ c.pre_ts # NoneV
                     /\ c.at - c.pre_ts.v < CacheTtl
        IN  /\ fresh => /\ ~c.fetched
                         /\ c.result = c.pre_cache
                         /\ c.post_cache = c.pre_cache
                         /\ c.post_ts = c.pre_ts
            /\ ~fresh => /\ c.fetched
                          /\ c.post_cache = c.result
                          /\ c.post_ts = Ts(c.at)

\* C8 witness: a call answered from a cache of positive age while the
\* remote object no longer is what was cached.
C8_Witness ==
    /\ last_call # NoneV
    /\ last_call.op = "get_config"
    /\ ~last_call.fetched
    /\ last_call.pre_ts # NoneV
    /\ last_call.at > last_call.pre_ts.v
    /\ last_call.store # S3Object(last_call.result)
    /\ last_call.store.tag = "Object"
    /\ TruthySeq(Get(last_call.store.doc, "domains", <<>>))

\* The remote object holds a document with a non-empty domain set.
RemoteUsable(store) ==
    /\ store.tag = "Object"
    /\ "domains" \in DOMAIN store.doc
    /\ store.doc.domains # <<>>

\* C9: a fetching get_config call returns the remote document when it has
\* domains; otherwise (fetch error, missing key, empty or missing domain
\* set) it returns the legacy document: one rule named after DOMAIN_NAME
\* with the pattern *@<DOMAIN_NAME> and TARGET_WEBHOOK_URL, or the document
\* without domains when either setting is unset.  It always returns.
C9_FallbackToLegacy ==
    (last_call # NoneV /\ last_call.op = "get_config" /\ last_call.fetched) =>
        LET c == last_call
            legacySet == /\ "DOMAIN_NAME" \in DOMAIN environ
                         /\ environ["DOMAIN_NAME"] # <<>>
                         /\ "TARGET_WEBHOOK_URL" \in DOMAIN environ
                         /\ environ["TARGET_WEBHOOK_URL"] # ""
        IN  /\ RemoteUsable(c.store) => c.result = c.store.doc
            /\ (~RemoteUsable(c.store) /\ legacySet) =>
                  /\ Len(c.result.domains) = 1
                  /\ c.result.domains[1].name = environ["DOMAIN_NAME"]
                  /\ c.result.domains[1].rule.patterns
                        = <<<<"*", "@">> \o environ["DOMAIN_NAME"]>>
                  /\ c.result.domains[1].rule.webhook_url = environ["TARGET_WEBHOOK_URL"]
            /\ (~RemoteUsable(c.store) /\ ~legacySet) =>
                  c.result = [domains |-> <<>>, global_settings |-> EmptyDict]

\* C9 witness: the remote object holds a document without domains and the
\* call returned the legacy rule.
C9_Witness ==
    /\ last_call # NoneV
    /\ last_call.op = "get_config"
    /\ last_call.fetched
    /\ last_call.store.tag = "Object"
    /\ ~RemoteUsable(last_call.store)
    /\ Len(last_call.result.domains) = 1

\* The rules of a document some pattern of which matches the address.
MatchingRules(doc, email) ==
    LET ds == Get(doc, "domains", <<>>)
    IN  {i \in 1..Len(ds) :
            \E j \in 1..Len(Get(ds[i].rule, "patterns", <<>>)) :
                FnMatch(Lower(email), Lower(ds[i].rule.patterns[j]))}

\* C10: get_domain_config_for_email returns None exactly when no pattern of
\* any rule matches the address, and otherwise the route of the matching
\* rule that comes first in the document (a KeyError, for a rule without
\* webhook_url, is that first rule's too).
C10_FirstMatchingRuleWins ==
    (last_call # NoneV /\ last_call.op = "get_domain_config_for_email") =>
        LET c == last_call
            ds == Get(c.document, "domains", <<>>)
            M == MatchingRules(c.document, c.email)
            first == CHOOSE i \in M : \A k \in M : i <= k
        IN  /\ (c.kind = "none") <=> (M = {})
            /\ (c.kind = "none") => c.result = NoneV
            /\ (c.kind = "route") =>
                  /\ c.result.webhook_url = ds[first].rule.webhook_url
                  /\ c.result.patterns = ds[first].rule.patterns
                  /\ c.result.webhook_secret = Get(ds[first].rule, "webhook_secret", "")
            /\ (c.kind = "raise") => "webhook_url" \notin DOMAIN ds[first].rule

\* C10 witness: a route was returned for an address that two rules match.
C10_Witness ==
    /\ last_call # NoneV
    /\ last_call.op = "get_domain_config_for_email"
    /\ last_call.kind = "route"
    /\ Cardinality(MatchingRules(last_call.document, last_call.email)) >= 2

\* ----------------------------------------------- claims: first rule only

\* The first rule of the cached document, in document order, one of whose
\* patterns matches the address; 0 when there is none.
FirstMatching(email) ==
    LET M == MatchingRules(_config_cache, email)
    IN  IF M = {} THEN 0 ELSE CHOOSE i \in M : \A k \in M : i <= k

\* The filters of rule i of the cached document accept the sender.
RuleAccepts(i, from_address) ==
    PassesFilters(from_address,
                  [filters |-> Get(_config_cache.domains[i].rule, "filters", EmptyDict)])

\* C28: only the first rule that matches a recipient counts for it:
\* is_email_allowed returns None exactly when every recipient has no
\* matching rule or has a first matching rule whose filters reject the
\* sender, whatever later rules match it and would accept; and a route it
\* returns is that of the first matching rule of the recipient it stopped
\* at.
C28_OnlyFirstMatchingRuleCounts ==
    AllowedReturned =>
        LET md == last_call.metadata
            first == [i \in 1..Len(md.to_addresses) |-> FirstMatching(md.to_addresses[i])]
        IN  /\ (last_call.result = NoneV) <=>
                  \A i \in 1..Len(md.to_addresses) :
                      first[i] = 0 \/ ~RuleAccepts(first[i], md.from_address)
            /\ (last_call.result # NoneV) =>
                  /\ first[last_call.at] # 0
                  /\ RuleAccepts(first[last_call.at], md.from_address)
                  /\ last_call.result.webhook_url =
                        _config_cache.domains[first[last_call.at]].rule.webhook_url

\* C28 witness: None was returned for a single recipient whose first
\* matching rule rejects the sender while a later rule matches the
\* recipient and accepts the sender.
C28_Witness ==
    /\ AllowedReturned
    /\ last_call.result = NoneV
    /\ Len(last_call.metadata.to_addresses) = 1
    /\ \E k \in MatchingRules(_config_cache, last_call.metadata.to_addresses[1]) :
          /\ k > FirstMatching(last_call.metadata.to_addresses[1])
          /\ RuleAccepts(k, last_call.metadata.from_address)

\* --------------------------------------------- claims: cached fallback

\* The cache holds what the fallback yields (the legacy document, or the
\* empty document), less than 300 s old.
FallbackCachedAndFresh ==
    /\ _config_cache # NoneV
    /\ _config_cache = LoadConfigFromEnv(environ)
    /\ _cache_timestamp # NoneV
    /\ now - _cache_timestamp.v < CacheTtl

\* The step is a get_config call that found the remote document missing,
\* unreadable or without domains.
FellBack ==
    /\ last_call' # last_call
    /\ last_call'.op = "get_config"
    /\ last_call'.fetched
    /\ ~RemoteUsable(last_call'.store)

\* C30: a get_config call that falls back caches the fallback document
\* with the time of the call; and while a fallback document is cached and
\* less than 300 s old, no call fetches, the cache and its timestamp stay,
\* and every get_config and every route lookup is answered from that
\* document, whatever the remote object has become.
C30_FallbackIsCachedLikeSuccess ==
    [][/\ FellBack =>
            /\ last_call'.result = LoadConfigFromEnv(environ)
            /\ _config_cache' = last_call'.result
            /\ _cache_timestamp' = Ts(now)
       /\ FallbackCachedAndFresh =>
            /\ _config_cache' = _config_cache
            /\ _cache_timestamp' = _cache_timestamp
            /\ (last_call' # last_call /\ last_call'.op = "get_config") =>
                  (~last_call'.fetched /\ last_call'.result = _config_cache)
            /\ (last_call' # last_call /\ last_call'.op = "get_domain_config_for_email") =>
                  last_call'.document = _config_cache
      ]_vars

\* C30 witness: a get_config call was answered from a cached fallback
\* document of positive age while the remote object held a usable document.
C30_Witness ==
    /\ last_call # NoneV
    /\ last_call.op = "get_config"
    /\ ~last_call.fetched
    /\ last_call.result = LoadConfigFromEnv(environ)
    /\ last_call.pre_ts # NoneV
    /\ last_call.at > last_call.pre_ts.v
    /\ RemoteUsable(last_call.store)

\* ------------------------------------------- claims: cache consistency

LaterRecipientEvaluated ==
    /\ pc = "is_allowed"
    /\ rcpt_i > 1
    /\ rcpt_i <= Len(metadata.to_addresses)
    /\ (pc' # pc \/ rcpt_i' # rcpt_i)

\* C32: inside one is_email_allowed call, every recipient after the first
\* is resolved against the cached document the recipient before it was
\* resolved against: its get_config does not fetch a document anew.
C32_OneDocumentPerMessage ==
    [][LaterRecipientEvaluated =>
          ~GetConfig(_config_cache, _cache_timestamp, _global_settings,
                     s3_config, environ, now).fetched
      ]_vars

\* ------------------------------------------ claims: legacy allow list

\* is_email_allowed has answered for a message to one recipient at the
\* configured domain while the legacy document is the cached one.
LegacyAnswered ==
    /\ pc = "allowed_returned"
    /\ _config_cache # NoneV
    /\ TruthySeq(Get(environ, "DOMAIN_NAME", <<>>))
    /\ _config_cache = LoadConfigFromEnv(environ)
    /\ Len(metadata.to_addresses) = 1
    /\ DomainAfterLastAt(metadata.to_addresses[1]) = environ.DOMAIN_NAME

\* The domains listed in ALLOWED_DOMAINS.
ListedDomains ==
    LET allowed_domains == Get(environ, "ALLOWED_DOMAINS", <<>>)
    IN  IF allowed_domains = <<>> THEN {}
        ELSE {Split(allowed_domains, ",")[k] : k \in 1..Len(Split(allowed_domains, ","))}

\* C34: with the legacy document, a message to a recipient at DOMAIN_NAME
\* gets the legacy route from is_email_allowed whenever ALLOWED_DOMAINS is
\* empty, and whenever it is not empty and the domain of the sender's
\* address is one of the domains it lists.
C34_LegacyAllowListAccepts ==
    LegacyAnswered =>
        /\ ListedDomains = {} => domain_config # NoneV
        /\ DomainAfterLastAt(metadata.from_address) \in ListedDomains =>
              domain_config # NoneV

====
